---- MODULE Spec2Model ----
(***************************************************************************)
(* A model of the `eighty` Intel 8080 / Space Invaders emulator:           *)
(*   - the byte-pattern matcher (src/byte-pattern/src/lib.rs),             *)
(*   - the instruction decoder and its buffer (src/eighty/src/isa),        *)
(*   - the execution engine, ports and main loop (src/eighty/src/emulate), *)
(*   - the host event loop and the emulator thread (src/eighty/src/ui.rs). *)
(* Memory is the 65 536-byte array of the emulator, represented by the     *)
(* function of its non-zero cells (every other cell reads 0).              *)
(***************************************************************************)
EXTENDS Integers, Sequences, FiniteSets, TLC

VARIABLES
    registers,          \* Registers: b c d e h l a stack_pointer program_counter
    flags,              \* Flags: carry auxiliary_carry sign_positive zero parity_even
    memory,             \* RegistersAndMemory.memory (non-zero cells)
    interrupts_enabled, \* Emulator.interrupts_enabled
    shift_register,     \* ShiftRegister: low high offset
    buttons,            \* Buttons.port_1
    sound_handler,      \* Handler: last_port_3 last_port_5
    played,             \* the sounds passed to play_sound by the last instruction
    sounds,             \* every sound passed to play_sound since construction, in order
    emu_pc,             \* where the emulator thread is in Emulator::execute
    middle_scan,        \* local of Emulator::execute
    timer,              \* "late" iff the loop reads last_interrupt.elapsed() > 1/120 s
    instruction,        \* the instruction last decoded (NoInstruction before)
    old_pc,             \* execute_one's old_pc: where that instruction was fetched
    dispatched,         \* the interrupt numbers handed to handle_interrupt by the loop
    video,              \* the slice last handed to copy_video
    last_op,            \* the last decode, push or pop applied on its own, with its operands
    frame,              \* per half of the pixel buffer, the number of the copy that wrote it
    mutex,              \* holder of the Mutex<Pixels>: "none", "emu" or "host"
    chan,               \* the mpsc channel of button events, in flight
    rx_alive,           \* the Receiver exists (it is dropped with the Emulator)
    sent,               \* every event the host has sent, in order
    applied,            \* every event handed to Buttons::update, in order
    drained,            \* the events received by try_recv in this loop iteration
    host_pc,            \* where the host thread is in its event handler
    renders             \* what the host saw of the frame at its last render

cpu_vars == <<registers, flags, memory, interrupts_enabled, shift_register,
              buttons, sound_handler, played, sounds>>
loop_vars == <<emu_pc, middle_scan, timer, instruction, old_pc, dispatched, video, last_op>>
host_vars == <<frame, mutex, chan, rx_alive, sent, applied, drained, host_pc, renders>>
vars == <<cpu_vars, loop_vars, host_vars>>

-----------------------------------------------------------------------------
(* Fixed-width integer helpers.                                            *)

MEMORY_SIZE == 65536

U8(x) == x % 256
U16(x) == x % 65536

Bit(x, i) == (x \div (2 ^ i)) % 2

RECURSIVE BitAnd(_, _)
BitAnd(x, y) ==
    IF x = 0 \/ y = 0 THEN 0
    ELSE (x % 2) * (y % 2) + 2 * BitAnd(x \div 2, y \div 2)

RECURSIVE BitOr(_, _)
BitOr(x, y) ==
    IF x = 0 THEN y
    ELSE IF y = 0 THEN x
    ELSE (IF x % 2 = 1 \/ y % 2 = 1 THEN 1 ELSE 0) + 2 * BitOr(x \div 2, y \div 2)

RECURSIVE BitXor(_, _)
BitXor(x, y) ==
    IF x = 0 THEN y
    ELSE IF y = 0 THEN x
    ELSE ((x + y) % 2) + 2 * BitXor(x \div 2, y \div 2)

BitNot8(x) == 255 - x

RECURSIVE count_ones(_)
count_ones(x) == IF x = 0 THEN 0 ELSE (x % 2) + count_ones(x \div 2)

\* u16::from_le_bytes([lo, hi]) and value.to_le_bytes()
from_le_bytes(lo, hi) == lo + 256 * hi
to_le_bytes(value) == <<value % 256, value \div 256>>

-----------------------------------------------------------------------------
(* byte-pattern: TernaryByte and the rewriting of one match arm.           *)

Letters == {"a", "b", "c", "d", "e", "f", "g", "h", "i", "j", "k", "l", "m",
            "n", "o", "p", "q", "r", "s", "t", "u", "v", "w", "x", "y", "z",
            "A", "B", "C", "D", "E", "F", "G", "H", "I", "J", "K", "L", "M",
            "N", "O", "P", "Q", "R", "S", "T", "U", "V", "W", "X", "Y", "Z"}

TernaryFalse == [kind |-> "False", ch |-> ""]
TernaryTrue == [kind |-> "True", ch |-> ""]
TernaryWild == [kind |-> "Wild", ch |-> ""]
TernaryCapture(c) == [kind |-> "Capture", ch |-> c]

is_wild(bit) == bit.kind \in {"Capture", "Wild"}

Reverse(s) == [i \in 1..Len(s) |-> s[Len(s) + 1 - i]]

\* TernaryByte::from_str: the characters of the pattern, most significant first,
\* underscores skipped; the result is indexed 1..8 for bits 0..7.
from_str(s) ==
    LET digits == Reverse(SelectSeq(s, LAMBDA ch : ch # "_"))
        valid(ch) == ch \in {"0", "1", "?"} \cup Letters
        tern(ch) == IF ch = "0" THEN TernaryFalse
                    ELSE IF ch = "1" THEN TernaryTrue
                    ELSE IF ch = "?" THEN TernaryWild
                    ELSE TernaryCapture(ch)
    IN  IF Len(digits) > 8 THEN [ok |-> FALSE, err |-> "too many digits", value |-> <<>>]
        ELSE IF \E i \in 1..Len(digits) : ~valid(digits[i])
             THEN [ok |-> FALSE, err |-> "invalid character", value |-> <<>>]
        ELSE [ok |-> TRUE, err |-> "",
              value |-> [i \in 1..8 |-> IF i <= Len(digits) THEN tern(digits[i])
                                        ELSE TernaryFalse]]

\* TernaryByte::fill_with_counter: the loop runs from bit 7 down to bit 0.
RECURSIVE fill_loop(_, _, _, _)
fill_loop(tb, idx, ret, counter) ==
    IF idx < 0 THEN ret
    ELSE LET bit == tb[idx + 1]
         IN  IF bit.kind = "True" THEN fill_loop(tb, idx - 1, U8(ret * 2) + 1, counter)
             ELSE IF bit.kind = "False" THEN fill_loop(tb, idx - 1, U8(ret * 2), counter)
             ELSE fill_loop(tb, idx - 1, U8(ret * 2) + (counter % 2), counter \div 2)

fill_with_counter(tb, counter) == fill_loop(tb, 7, 0, counter)

\* TernaryByte::possibilities: counter = 1 << (number of wild bits), a u8; the
\* iterator yields fill_with_counter for counter-1 down to 0.
possibilities(tb) ==
    LET wild == Cardinality({i \in 1..8 : is_wild(tb[i])})
        counter == U8(2 ^ (wild % 8))
    IN  {fill_with_counter(tb, c) : c \in 0..(counter - 1)}

\* The shift in `1 << count` leaves the u8 when all eight bits are wild: with
\* overflow checks possibilities aborts there, without them it goes on as above.
possibilities_overflows(tb) == Cardinality({i \in 1..8 : is_wild(tb[i])}) >= 8

\* TernaryByte::captures: name -> Range {start, end} (inclusive).
RECURSIVE captures_loop(_, _, _, _)
captures_loop(tb, idx, ret, current) ==
    IF idx > 7 THEN
        IF current.some THEN
            IF current.ch \in DOMAIN ret
            THEN [ok |-> FALSE, value |-> ret]
            ELSE [ok |-> TRUE, value |-> (current.ch :> current.range) @@ ret]
        ELSE [ok |-> TRUE, value |-> ret]
    ELSE LET bit == tb[idx + 1]
             fresh == [some |-> TRUE, ch |-> bit.ch,
                       range |-> [start |-> idx, end |-> idx]]
         IN  IF bit.kind # "Capture" THEN captures_loop(tb, idx + 1, ret, current)
             ELSE IF current.some /\ bit.ch = current.ch
                  THEN captures_loop(tb, idx + 1, ret,
                                     [current EXCEPT !.range.end = @ + 1])
             ELSE IF current.some /\ current.ch \in DOMAIN ret
                  THEN [ok |-> FALSE, value |-> ret]
             ELSE IF current.some
                  THEN captures_loop(tb, idx + 1,
                                     (current.ch :> current.range) @@ ret, fresh)
             ELSE captures_loop(tb, idx + 1, ret, fresh)

NoCaptures == [c \in {} |-> [start |-> 0, end |-> 0]]

captures(tb) ==
    captures_loop(tb, 0, NoCaptures,
                  [some |-> FALSE, ch |-> "", range |-> [start |-> 0, end |-> 0]])

\* Range::len
RangeLen(range) == range.end - range.start + 1

\* rewrite_body: let name: u8 = (byte >> start) & ((1u8 << len) - 1)
\* A capture that masks the byte without shifting the captured bits down
rewrite_body_unshifted(caps, name, byte) ==
    LET len == RangeLen(caps[name])
        mask == (U8(2 ^ (len % 8)) - 1) * (2 ^ caps[name].start)
    IN  IF len % 8 = 0 THEN byte ELSE BitAnd(byte, mask)

rewrite_body(caps, name, byte) ==
    LET shift == caps[name].start
        len == RangeLen(caps[name])
        mask == U8(2 ^ (len % 8)) - 1
        shifted == byte \div (2 ^ shift)
    IN  IF mask = 255 THEN shifted ELSE BitAnd(shifted, mask)

\* The shift in `1u8 << len` leaves the u8 when a capture is eight bits long:
\* with overflow checks rewrite_body aborts there, without them the mask is 0.
rewrite_body_overflows(caps) == \E name \in DOMAIN caps : RangeLen(caps[name]) >= 8

\* get_captures_and_bytes for a literal or an or-pattern of literals.
RECURSIVE pattern_bytes(_, _)
pattern_bytes(pats, i) ==
    IF i > Len(pats) THEN {}
    ELSE possibilities(from_str(pats[i]).value) \cup pattern_bytes(pats, i + 1)

\* handle_arm: the bytes of the pattern minus those of every #[not(..)].
\* A handle_arm that forgets the #[not(..)] attributes of the arm.
handle_arm_keeps_nots(arm) == pattern_bytes(arm.pats, 1)

handle_arm(arm) == pattern_bytes(arm.pats, 1) \ pattern_bytes(arm.nots, 1)

-----------------------------------------------------------------------------
(* isa/model.rs: the from_bits conversions.                                *)

Register_from_bits(bits) ==
    <<"B", "C", "D", "E", "H", "L", "MemoryRef", "A">>[BitAnd(bits, 7) + 1]

SmallRegisterPair_from_bits(bits) == <<"Bc", "De">>[BitAnd(bits, 1) + 1]

StackOpRegPair_from_bits(bits) == <<"Bc", "De", "Hl", "FlagsA">>[BitAnd(bits, 3) + 1]

LargeRegPair_from_bits(bits) == <<"Bc", "De", "Hl", "Sp">>[BitAnd(bits, 3) + 1]

ToAccumulatorOperation_from_bits(bits) ==
    <<"Add", "AddWithCarry", "Subtract", "SubtractWithBorrow",
      "And", "Xor", "Or", "Compare">>[BitAnd(bits, 7) + 1]

RotateAccumulatorOperation_from_bits(bits) ==
    <<"Left", "Right", "LeftThroughCarry", "RightThroughCarry">>[BitAnd(bits, 3) + 1]

DirectAddressOperation_from_bits(bits) ==
    <<"StoreHl", "LoadHl", "StoreAccumulator", "LoadAccumulator">>[BitAnd(bits, 3) + 1]

Condition_from_bits(bits) ==
    <<"NonZero", "Zero", "NoCarry", "Carry",
      "ParityOdd", "ParityEven", "Plus", "Minus">>[BitAnd(bits, 7) + 1]

-----------------------------------------------------------------------------
(* Memory and isa/buffer.rs.                                               *)

\* memory[addr] for an in-range index
MemGet(mem, addr) == IF addr \in DOMAIN mem THEN mem[addr] ELSE 0

\* memory[addr] = value for an in-range index
MemSet(mem, addr, value) ==
    IF value = 0
    THEN [x \in (DOMAIN mem) \ {addr} |-> mem[x]]
    ELSE [x \in (DOMAIN mem) \cup {addr} |-> IF x = addr THEN value ELSE mem[x]]

ZeroMemory == [x \in {} |-> 0]

\* Buffer::new_at; len is data.len()
new_at(len, cursor) == [len |-> len, cursor |-> cursor, panicked |-> FALSE]

\* Buffer::read_u8: data[cursor] panics when cursor >= data.len()
read_u8(data, buffer) ==
    IF buffer.panicked THEN [value |-> 0, buffer |-> buffer]
    ELSE IF buffer.cursor >= buffer.len
         THEN [value |-> 0, buffer |-> [buffer EXCEPT !.panicked = TRUE]]
    ELSE [value |-> MemGet(data, buffer.cursor),
          buffer |-> [buffer EXCEPT !.cursor = @ + 1]]

\* A read_u16 that reads the two bytes big-endian.
read_u16_big_endian(data, buffer) ==
    IF buffer.panicked THEN [value |-> 0, buffer |-> buffer]
    ELSE IF buffer.cursor > buffer.len \/ buffer.len - buffer.cursor < 2
         THEN [value |-> 0, buffer |-> [buffer EXCEPT !.panicked = TRUE]]
    ELSE [value |-> from_le_bytes(MemGet(data, buffer.cursor + 1),
                                  MemGet(data, buffer.cursor)),
          buffer |-> [buffer EXCEPT !.cursor = @ + 2]]

\* Buffer::read_u16: data[cursor..][..2] panics unless two bytes remain
read_u16(data, buffer) ==
    IF buffer.panicked THEN [value |-> 0, buffer |-> buffer]
    ELSE IF buffer.cursor > buffer.len \/ buffer.len - buffer.cursor < 2
         THEN [value |-> 0, buffer |-> [buffer EXCEPT !.panicked = TRUE]]
    ELSE [value |-> from_le_bytes(MemGet(data, buffer.cursor),
                                  MemGet(data, buffer.cursor + 1)),
          buffer |-> [buffer EXCEPT !.cursor = @ + 2]]

-----------------------------------------------------------------------------
(* isa/decode.rs: Instruction::decode.                                     *)

\* The arms of the match in Instruction::decode, in source order.
Arms == <<
    [body |-> "ComplementCarry",
     pats |-> <<<<"0", "0", "1", "1", "_", "1", "1", "1", "1">>>>,
     nots |-> <<>>],
    [body |-> "SetCarry",
     pats |-> <<<<"0", "0", "1", "1", "_", "0", "1", "1", "1">>>>,
     nots |-> <<>>],
    [body |-> "ComplementAccumulator",
     pats |-> <<<<"0", "0", "1", "0", "_", "1", "1", "1", "1">>>>,
     nots |-> <<>>],
    [body |-> "DecimalAdjustAccumulator",
     pats |-> <<<<"0", "0", "1", "0", "_", "0", "1", "1", "1">>>>,
     nots |-> <<>>],
    [body |-> "Nop",
     pats |-> <<<<"0", "0", "0", "0", "_", "0", "0", "0", "0">>>>,
     nots |-> <<>>],
    [body |-> "ExchangeRegisters",
     pats |-> <<<<"1", "1", "1", "0", "_", "1", "0", "1", "1">>>>,
     nots |-> <<>>],
    [body |-> "ExchangeStack",
     pats |-> <<<<"1", "1", "1", "0", "_", "0", "0", "1", "1">>>>,
     nots |-> <<>>],
    [body |-> "LoadSpFromHl",
     pats |-> <<<<"1", "1", "1", "1", "_", "1", "0", "0", "1">>>>,
     nots |-> <<>>],
    [body |-> "LoadProgramCounter",
     pats |-> <<<<"1", "1", "1", "0", "_", "1", "0", "0", "1">>>>,
     nots |-> <<>>],
    [body |-> "EnableInterrupts",
     pats |-> <<<<"1", "1", "1", "1", "_", "1", "0", "1", "1">>>>,
     nots |-> <<>>],
    [body |-> "DisableInterrupts",
     pats |-> <<<<"1", "1", "1", "1", "_", "0", "0", "1", "1">>>>,
     nots |-> <<>>],
    [body |-> "In",
     pats |-> <<<<"1", "1", "0", "1", "_", "1", "0", "1", "1">>>>,
     nots |-> <<>>],
    [body |-> "Out",
     pats |-> <<<<"1", "1", "0", "1", "_", "0", "0", "1", "1">>>>,
     nots |-> <<>>],
    [body |-> "Halt",
     pats |-> <<<<"0", "1", "1", "1", "_", "0", "1", "1", "0">>>>,
     nots |-> <<>>],
    [body |-> "Increment",
     pats |-> <<<<"0", "0", "x", "x", "_", "x", "1", "0", "0">>>>,
     nots |-> <<>>],
    [body |-> "Decrement",
     pats |-> <<<<"0", "0", "x", "x", "_", "x", "1", "0", "1">>>>,
     nots |-> <<>>],
    [body |-> "Move",
     pats |-> <<<<"0", "1", "d", "d", "_", "d", "s", "s", "s">>>>,
     nots |-> <<<<"0", "1", "1", "1", "_", "0", "1", "1", "0">>>>],
    [body |-> "StoreAccumulator",
     pats |-> <<<<"0", "0", "0", "p", "_", "0", "0", "1", "0">>>>,
     nots |-> <<>>],
    [body |-> "LoadAccumulator",
     pats |-> <<<<"0", "0", "0", "p", "_", "1", "0", "1", "0">>>>,
     nots |-> <<>>],
    [body |-> "ToAccumulator",
     pats |-> <<<<"1", "0", "o", "o", "_", "o", "r", "r", "r">>>>,
     nots |-> <<>>],
    [body |-> "RotateAccumulator",
     pats |-> <<<<"0", "0", "0", "o", "_", "o", "1", "1", "1">>>>,
     nots |-> <<>>],
    [body |-> "Push",
     pats |-> <<<<"1", "1", "p", "p", "_", "0", "1", "0", "1">>>>,
     nots |-> <<>>],
    [body |-> "Pop",
     pats |-> <<<<"1", "1", "p", "p", "_", "0", "0", "0", "1">>>>,
     nots |-> <<>>],
    [body |-> "AddToHl",
     pats |-> <<<<"0", "0", "p", "p", "_", "1", "0", "0", "1">>>>,
     nots |-> <<>>],
    [body |-> "IncrementPair",
     pats |-> <<<<"0", "0", "p", "p", "_", "0", "0", "1", "1">>>>,
     nots |-> <<>>],
    [body |-> "DecrementPair",
     pats |-> <<<<"0", "0", "p", "p", "_", "1", "0", "1", "1">>>>,
     nots |-> <<>>],
    [body |-> "LoadLargeImmediate",
     pats |-> <<<<"0", "0", "p", "p", "_", "0", "0", "0", "1">>>>,
     nots |-> <<>>],
    [body |-> "LoadImmediate",
     pats |-> <<<<"0", "0", "r", "r", "_", "r", "1", "1", "0">>>>,
     nots |-> <<>>],
    [body |-> "ToAccumulatorImmediate",
     pats |-> <<<<"1", "1", "o", "o", "_", "o", "1", "1", "0">>>>,
     nots |-> <<>>],
    [body |-> "DirectAddress",
     pats |-> <<<<"0", "0", "1", "o", "_", "o", "0", "1", "0">>>>,
     nots |-> <<>>],
    [body |-> "Restart",
     pats |-> <<<<"1", "1", "e", "e", "_", "e", "1", "1", "1">>>>,
     nots |-> <<>>],
    [body |-> "Invalid",
     pats |-> <<<<"0", "0", "0", "0", "_", "1", "0", "0", "0">>,
                 <<"0", "0", "0", "1", "_", "0", "0", "0", "0">>,
                 <<"0", "0", "0", "1", "_", "1", "0", "0", "0">>,
                 <<"0", "0", "1", "0", "_", "0", "0", "0", "0">>,
                 <<"0", "0", "1", "0", "_", "1", "0", "0", "0">>,
                 <<"0", "0", "1", "1", "_", "0", "0", "0", "0">>,
                 <<"0", "0", "1", "1", "_", "1", "0", "0", "0">>>>,
     nots |-> <<>>],
    [body |-> "Jump",
     pats |-> <<<<"1", "1", "o", "o", "_", "o", "0", "1", "0">>>>,
     nots |-> <<>>],
    [body |-> "JumpUnconditional",
     pats |-> <<<<"1", "1", "0", "0", "_", "?", "0", "1", "1">>>>,
     nots |-> <<>>],
    [body |-> "Call",
     pats |-> <<<<"1", "1", "o", "o", "_", "o", "1", "0", "0">>>>,
     nots |-> <<>>],
    [body |-> "CallUnconditional",
     pats |-> <<<<"1", "1", "?", "?", "_", "1", "1", "0", "1">>>>,
     nots |-> <<>>],
    [body |-> "ReturnFromSubroutine",
     pats |-> <<<<"1", "1", "o", "o", "_", "o", "0", "0", "0">>>>,
     nots |-> <<>>],
    [body |-> "ReturnUnconditional",
     pats |-> <<<<"1", "1", "0", "?", "_", "1", "0", "0", "1">>>>,
     nots |-> <<>>]
>>

NoInstruction == [op |-> "None"]

\* The body of one arm, with the captures bound as rewrite_body binds them.
ArmBody(arm, opcode, data, buffer) ==
    LET caps == captures(from_str(arm.pats[1]).value).value
        cap(name) == rewrite_body(caps, name, opcode)
        imm8 == read_u8(data, buffer)
        imm16 == read_u16(data, buffer)
        plain(instr) == [instruction |-> instr, buffer |-> buffer]
        b == arm.body
    IN  CASE b = "In" -> [instruction |-> [op |-> "In", port |-> imm8.value],
                          buffer |-> imm8.buffer]
          [] b = "Out" -> [instruction |-> [op |-> "Out", port |-> imm8.value],
                           buffer |-> imm8.buffer]
          [] b = "Increment" ->
                plain([op |-> "Increment", register |-> Register_from_bits(cap("x"))])
          [] b = "Decrement" ->
                plain([op |-> "Decrement", register |-> Register_from_bits(cap("x"))])
          [] b = "Move" ->
                plain([op |-> "Move", destination |-> Register_from_bits(cap("d")),
                       source |-> Register_from_bits(cap("s"))])
          [] b = "StoreAccumulator" ->
                plain([op |-> "StoreAccumulator",
                       addr_pair |-> SmallRegisterPair_from_bits(cap("p"))])
          [] b = "LoadAccumulator" ->
                plain([op |-> "LoadAccumulator",
                       addr_pair |-> SmallRegisterPair_from_bits(cap("p"))])
          [] b = "ToAccumulator" ->
                plain([op |-> "ToAccumulator",
                       operation |-> ToAccumulatorOperation_from_bits(cap("o")),
                       register |-> Register_from_bits(cap("r"))])
          [] b = "RotateAccumulator" ->
                plain([op |-> "RotateAccumulator",
                       operation |-> RotateAccumulatorOperation_from_bits(cap("o"))])
          [] b = "Push" ->
                plain([op |-> "Push", pair |-> StackOpRegPair_from_bits(cap("p"))])
          [] b = "Pop" ->
                plain([op |-> "Pop", pair |-> StackOpRegPair_from_bits(cap("p"))])
          [] b = "AddToHl" ->
                plain([op |-> "AddToHl", pair |-> LargeRegPair_from_bits(cap("p"))])
          [] b = "IncrementPair" ->
                plain([op |-> "IncrementPair", pair |-> LargeRegPair_from_bits(cap("p"))])
          [] b = "DecrementPair" ->
                plain([op |-> "DecrementPair", pair |-> LargeRegPair_from_bits(cap("p"))])
          [] b = "LoadLargeImmediate" ->
                [instruction |-> [op |-> "LoadLargeImmediate",
                                  pair |-> LargeRegPair_from_bits(cap("p")),
                                  value |-> imm16.value],
                 buffer |-> imm16.buffer]
          [] b = "LoadImmediate" ->
                [instruction |-> [op |-> "LoadImmediate",
                                  reg |-> Register_from_bits(cap("r")),
                                  value |-> imm8.value],
                 buffer |-> imm8.buffer]
          [] b = "ToAccumulatorImmediate" ->
                [instruction |-> [op |-> "ToAccumulatorImmediate",
                                  operation |-> ToAccumulatorOperation_from_bits(cap("o")),
                                  value |-> imm8.value],
                 buffer |-> imm8.buffer]
          [] b = "DirectAddress" ->
                [instruction |-> [op |-> "DirectAddress",
                                  operation |-> DirectAddressOperation_from_bits(cap("o")),
                                  addr |-> imm16.value],
                 buffer |-> imm16.buffer]
          [] b = "Restart" -> plain([op |-> "Restart", routine_number |-> cap("e")])
          [] b = "Invalid" -> plain([op |-> "Invalid", opcode |-> opcode])
          [] b = "Jump" ->
                [instruction |-> [op |-> "Jump", condition |-> Condition_from_bits(cap("o")),
                                  addr |-> imm16.value],
                 buffer |-> imm16.buffer]
          [] b = "JumpUnconditional" ->
                [instruction |-> [op |-> "Jump", condition |-> "Unconditional",
                                  addr |-> imm16.value],
                 buffer |-> imm16.buffer]
          [] b = "Call" ->
                [instruction |-> [op |-> "Call", condition |-> Condition_from_bits(cap("o")),
                                  addr |-> imm16.value],
                 buffer |-> imm16.buffer]
          [] b = "CallUnconditional" ->
                [instruction |-> [op |-> "Call", condition |-> "Unconditional",
                                  addr |-> imm16.value],
                 buffer |-> imm16.buffer]
          [] b = "ReturnFromSubroutine" ->
                plain([op |-> "ReturnFromSubroutine",
                       condition |-> Condition_from_bits(cap("o"))])
          [] b = "ReturnUnconditional" ->
                plain([op |-> "ReturnFromSubroutine", condition |-> "Unconditional"])
          [] OTHER -> plain([op |-> b])

\* The bytes each arm accepts once the macro has rewritten its pattern.
ArmBytes == [i \in 1..Len(Arms) |-> handle_arm(Arms[i])]

\* The arms whose rewritten pattern accepts the opcode.
MatchingArms(opcode) == {i \in 1..Len(Arms) : opcode \in ArmBytes[i]}

\* Instruction::decode: read the opcode, take the first arm that accepts it.
decode(data, buffer) ==
    LET first == read_u8(data, buffer)
        opcode == first.value
        hits == MatchingArms(opcode)
    IN  IF first.buffer.panicked \/ hits = {}
        THEN [instruction |-> NoInstruction, buffer |-> first.buffer]
        ELSE LET i == CHOOSE k \in hits : \A j \in hits : k <= j
                 out == ArmBody(Arms[i], opcode, data, first.buffer)
             IN  IF out.buffer.panicked
                 THEN [instruction |-> NoInstruction, buffer |-> out.buffer]
                 ELSE out

-----------------------------------------------------------------------------
(* util.rs and emulate/flags.rs.                                           *)

\* An addition that never reports the carry out of bit 7
overflowing_add_no_carry(a, b) == [value |-> U8(a + b), carry |-> FALSE]

overflowing_add(a, b) == [value |-> U8(a + b), carry |-> a + b > 255]
overflowing_sub(a, b) == [value |-> U8(a + 256 - b), carry |-> a < b]
B2N(b) == IF b THEN 1 ELSE 0

carrying_add_p(a, rhs, carry) ==
    LET intermediate == overflowing_add(a, rhs)
        ret == overflowing_add(intermediate.value, B2N(carry))
    IN  [value |-> ret.value, carry |-> intermediate.carry \/ ret.carry]

\* A subtraction whose borrow out forgets the incoming borrow
borrowing_sub_p_borrow_from_rhs(a, rhs, borrow) ==
    LET intermediate == overflowing_sub(a, rhs)
        ret == overflowing_sub(intermediate.value, B2N(borrow))
    IN  [value |-> ret.value, carry |-> intermediate.carry]

borrowing_sub_p(a, rhs, borrow) ==
    LET intermediate == overflowing_sub(a, rhs)
        ret == overflowing_sub(intermediate.value, B2N(borrow))
    IN  [value |-> ret.value, carry |-> intermediate.carry \/ ret.carry]

DefaultFlags == [carry |-> FALSE, auxiliary_carry |-> FALSE, sign_positive |-> FALSE,
                 zero |-> FALSE, parity_even |-> FALSE]

\* A set_from_arithmetic that leaves parity_even as it was
set_from_arithmetic_keeps_parity(f, result) ==
    [f EXCEPT !.sign_positive = (BitAnd(result, 128) = 0),
              !.zero = (result = 0)]

set_from_arithmetic(f, result) ==
    [f EXCEPT !.sign_positive = (BitAnd(result, 128) = 0),
              !.zero = (result = 0),
              !.parity_even = (count_ones(result) % 2 = 0)]

as_byte(f) ==
    BitOr(B2N(f.carry),
    BitOr(B2N(f.auxiliary_carry) * 16,
    BitOr(B2N(f.sign_positive) * 128,
    BitOr(B2N(f.zero) * 64,
    BitOr(B2N(f.parity_even) * 4, 2)))))

\* A set_byte that reads bit 7 as the hardware S flag (sign_positive = bit clear)
set_byte_inverts_sign(f, byte) ==
    [f EXCEPT !.carry = BitAnd(byte, 1) > 0,
              !.auxiliary_carry = BitAnd(byte, 16) > 0,
              !.sign_positive = BitAnd(byte, 128) = 0,
              !.zero = BitAnd(byte, 64) > 0,
              !.parity_even = BitAnd(byte, 4) > 0]

set_byte(f, byte) ==
    [f EXCEPT !.carry = BitAnd(byte, 1) > 0,
              !.auxiliary_carry = BitAnd(byte, 16) > 0,
              !.sign_positive = BitAnd(byte, 128) > 0,
              !.zero = BitAnd(byte, 64) > 0,
              !.parity_even = BitAnd(byte, 4) > 0]

\* An evaluate that treats Unconditional as never satisfied
evaluate_never_unconditional(f, condition) ==
    CASE condition = "Unconditional" -> FALSE
      [] condition = "Zero" -> f.zero
      [] condition = "NoCarry" -> ~f.carry
      [] condition = "Carry" -> f.carry
      [] condition = "ParityOdd" -> ~f.parity_even
      [] condition = "ParityEven" -> f.parity_even
      [] condition = "Plus" -> f.sign_positive
      [] condition = "Minus" -> ~f.sign_positive
      [] condition = "NonZero" -> ~f.zero

evaluate(f, condition) ==
    CASE condition = "Unconditional" -> TRUE
      [] condition = "Zero" -> f.zero
      [] condition = "NoCarry" -> ~f.carry
      [] condition = "Carry" -> f.carry
      [] condition = "ParityOdd" -> ~f.parity_even
      [] condition = "ParityEven" -> f.parity_even
      [] condition = "Plus" -> f.sign_positive
      [] condition = "Minus" -> ~f.sign_positive
      [] condition = "NonZero" -> ~f.zero

-----------------------------------------------------------------------------
(* emulate/registers.rs and emulate/regs_and_mem.rs.  An emulator state s  *)
(* is a record of the Emulator's fields plus `panicked`, set when an index *)
(* or an arithmetic check aborts the thread.                               *)

DefaultRegisters == [b |-> 0, c |-> 0, d |-> 0, e |-> 0, h |-> 0, l |-> 0, a |-> 0,
                     stack_pointer |-> 0, program_counter |-> 0]

hl(r) == from_le_bytes(r.l, r.h)
set_hl(r, value) == [r EXCEPT !.l = to_le_bytes(value)[1], !.h = to_le_bytes(value)[2]]

get_pair(r, pair) ==
    CASE pair = "Bc" -> from_le_bytes(r.c, r.b)
      [] pair = "De" -> from_le_bytes(r.e, r.d)
      [] pair = "Hl" -> from_le_bytes(r.l, r.h)
      [] pair = "Sp" -> r.stack_pointer

set_pair(r, pair, value) ==
    LET bytes == to_le_bytes(value)
    IN  CASE pair = "Bc" -> [r EXCEPT !.c = bytes[1], !.b = bytes[2]]
          [] pair = "De" -> [r EXCEPT !.e = bytes[1], !.d = bytes[2]]
          [] pair = "Hl" -> [r EXCEPT !.l = bytes[1], !.h = bytes[2]]
          [] pair = "Sp" -> [r EXCEPT !.stack_pointer = value]

get_small_pair(r, pair) ==
    CASE pair = "Bc" -> BitOr(r.b * 256, r.c)
      [] pair = "De" -> BitOr(r.d * 256, r.e)

\* memory[addr..][..2]: aborts unless both bytes lie inside the memory
get_u16_at(s, addr) ==
    IF addr + 2 > MEMORY_SIZE THEN [value |-> 0, panicked |-> TRUE]
    ELSE [value |-> from_le_bytes(MemGet(s.memory, addr), MemGet(s.memory, addr + 1)),
          panicked |-> FALSE]

set_u16_at(s, addr, value) ==
    IF addr + 2 > MEMORY_SIZE THEN [s EXCEPT !.panicked = TRUE]
    ELSE [s EXCEPT !.memory = MemSet(MemSet(@, addr, to_le_bytes(value)[1]),
                                     addr + 1, to_le_bytes(value)[2])]

get_at_stack(s) == get_u16_at(s, s.registers.stack_pointer)
set_at_stack(s, value) == set_u16_at(s, s.registers.stack_pointer, value)

push(s, value) ==
    set_at_stack([s EXCEPT !.registers.stack_pointer = U16(@ + 65536 - 2)], value)

\* pop returns the value read and the state after
pop(s) ==
    LET ret == get_at_stack(s)
    IN  IF ret.panicked THEN [value |-> 0, state |-> [s EXCEPT !.panicked = TRUE]]
        ELSE [value |-> ret.value,
              state |-> [s EXCEPT !.registers.stack_pointer = U16(@ + 2)]]

\* Index<Register> and IndexMut<Register>
reg_index(s, reg) ==
    CASE reg = "A" -> s.registers.a
      [] reg = "B" -> s.registers.b
      [] reg = "C" -> s.registers.c
      [] reg = "D" -> s.registers.d
      [] reg = "E" -> s.registers.e
      [] reg = "H" -> s.registers.h
      [] reg = "L" -> s.registers.l
      [] reg = "MemoryRef" -> MemGet(s.memory, hl(s.registers))

reg_index_mut(s, reg, value) ==
    CASE reg = "A" -> [s EXCEPT !.registers.a = value]
      [] reg = "B" -> [s EXCEPT !.registers.b = value]
      [] reg = "C" -> [s EXCEPT !.registers.c = value]
      [] reg = "D" -> [s EXCEPT !.registers.d = value]
      [] reg = "E" -> [s EXCEPT !.registers.e = value]
      [] reg = "H" -> [s EXCEPT !.registers.h = value]
      [] reg = "L" -> [s EXCEPT !.registers.l = value]
      [] reg = "MemoryRef" -> [s EXCEPT !.memory = MemSet(@, hl(s.registers), value)]

-----------------------------------------------------------------------------
(* emulate/shift_register.rs, emulate/button.rs, emulate/sound.rs and      *)
(* emulate/ports.rs.                                                       *)

DefaultShiftRegister == [low |-> 0, high |-> 0, offset |-> 0]

\* ShiftRegister::read: (combined >> (8 - offset)) as u8.  8 - offset is a u8
\* subtraction and >> a u16 shift: with overflow checks both abort when out of
\* range, without them the difference wraps and the shift count is taken mod 16.
\* A read that shifts right by the offset itself
shift_register_read_by_offset(sr, checks) ==
    LET combined == BitOr(sr.high * 256, sr.low)
    IN  [value |-> U8(combined \div (2 ^ (sr.offset % 16))), panicked |-> FALSE]

shift_register_read(sr, checks) ==
    LET combined == BitOr(sr.high * 256, sr.low)
        amount == U8(8 + 256 - sr.offset)
    IN  IF checks /\ sr.offset > 8
        THEN [value |-> 0, panicked |-> TRUE]
        ELSE [value |-> U8(combined \div (2 ^ (amount % 16))), panicked |-> FALSE]

shift_register_write(sr, value) == [sr EXCEPT !.low = sr.high, !.high = value]

write_offset(sr, offset) == [sr EXCEPT !.offset = offset]

Button == {"Start", "Left", "Right", "Shoot", "Coin"}

to_bit(event) ==
    CASE event.button = "Start" -> 2
      [] event.button = "Shoot" -> 4
      [] event.button = "Left" -> 5
      [] event.button = "Right" -> 6
      [] event.button = "Coin" -> 0

\* A set_bit that sets the bit whatever the value
set_bit_only_sets(port_1, bit, value) == BitOr(port_1, 2 ^ bit)

set_bit(port_1, bit, value) ==
    LET mask == 2 ^ bit
    IN  IF value THEN BitOr(port_1, mask) ELSE BitAnd(port_1, BitNot8(mask))

update(port_1, event) == set_bit(port_1, to_bit(event), event.pressed)

DefaultSoundHandler == [last_port_3 |-> 0, last_port_5 |-> 0]

\* A write_3 that plays UfoStop whenever bit 0 is low, not only when it falls
write_3_stop_on_low(sh, value) ==
    LET new == BitAnd(value, BitNot8(sh.last_port_3))
        ufo == IF BitAnd(new, 1) > 0 THEN <<"UfoStart">>
               ELSE IF BitAnd(value, 1) = 0 THEN <<"UfoStop">>
               ELSE <<>>
    IN  [sounds |-> ufo
                    \o (IF BitAnd(new, 2) > 0 THEN <<"Shot">> ELSE <<>>)
                    \o (IF BitAnd(new, 4) > 0 THEN <<"Flash">> ELSE <<>>)
                    \o (IF BitAnd(new, 8) > 0 THEN <<"InvaderDie">> ELSE <<>>),
         handler |-> [sh EXCEPT !.last_port_3 = value]]

\* A write_5 that plays a sound for every bit that is set, risen or not
write_5_on_level(sh, value) ==
    [sounds |-> (IF BitAnd(value, 1) > 0 THEN <<"FleetMovement1">> ELSE <<>>)
                \o (IF BitAnd(value, 2) > 0 THEN <<"FleetMovement2">> ELSE <<>>)
                \o (IF BitAnd(value, 4) > 0 THEN <<"FleetMovement3">> ELSE <<>>)
                \o (IF BitAnd(value, 8) > 0 THEN <<"FleetMovement4">> ELSE <<>>)
                \o (IF BitAnd(value, 16) > 0 THEN <<"UfoHit">> ELSE <<>>),
     handler |-> [sh EXCEPT !.last_port_5 = value]]

\* Handler::write_3: the sounds played, in order, and the handler after
write_3(sh, value) ==
    LET new == BitAnd(value, BitNot8(sh.last_port_3))
        fallen == BitAnd(BitNot8(value), sh.last_port_3)
        ufo == IF BitAnd(new, 1) > 0 THEN <<"UfoStart">>
               ELSE IF BitAnd(fallen, 1) > 0 THEN <<"UfoStop">>
               ELSE <<>>
    IN  [sounds |-> ufo
                    \o (IF BitAnd(new, 2) > 0 THEN <<"Shot">> ELSE <<>>)
                    \o (IF BitAnd(new, 4) > 0 THEN <<"Flash">> ELSE <<>>)
                    \o (IF BitAnd(new, 8) > 0 THEN <<"InvaderDie">> ELSE <<>>),
         handler |-> [sh EXCEPT !.last_port_3 = value]]

write_5(sh, value) ==
    LET new == BitAnd(value, BitNot8(sh.last_port_5))
    IN  [sounds |-> (IF BitAnd(new, 1) > 0 THEN <<"FleetMovement1">> ELSE <<>>)
                    \o (IF BitAnd(new, 2) > 0 THEN <<"FleetMovement2">> ELSE <<>>)
                    \o (IF BitAnd(new, 4) > 0 THEN <<"FleetMovement3">> ELSE <<>>)
                    \o (IF BitAnd(new, 8) > 0 THEN <<"FleetMovement4">> ELSE <<>>)
                    \o (IF BitAnd(new, 16) > 0 THEN <<"UfoHit">> ELSE <<>>),
         handler |-> [sh EXCEPT !.last_port_5 = value]]

\* Emulator::read_port: Some(value), None, or an abort inside ShiftRegister::read;
\* `checks` says whether the build checks arithmetic overflow (debug builds do)
read_port(s, port, checks) ==
    CASE port = 0 -> [some |-> TRUE, value |-> 14, panicked |-> FALSE]
      [] port = 1 -> [some |-> TRUE, value |-> s.buttons, panicked |-> FALSE]
      [] port = 2 -> [some |-> TRUE, value |-> 0, panicked |-> FALSE]
      [] port = 3 ->
            LET r == shift_register_read(s.shift_register, checks)
            IN  [some |-> TRUE, value |-> r.value, panicked |-> r.panicked]
      [] OTHER -> [some |-> FALSE, value |-> 0, panicked |-> FALSE]

write_port(s, port, value) ==
    CASE port = 2 -> [s EXCEPT !.shift_register = write_offset(@, value)]
      [] port = 3 ->
            LET w == write_3(s.sound_handler, value)
            IN  [s EXCEPT !.sound_handler = w.handler, !.played = @ \o w.sounds,
                          !.sounds = @ \o w.sounds]
      [] port = 4 -> [s EXCEPT !.shift_register = shift_register_write(@, value)]
      [] port = 5 ->
            LET w == write_5(s.sound_handler, value)
            IN  [s EXCEPT !.sound_handler = w.handler, !.played = @ \o w.sounds,
                          !.sounds = @ \o w.sounds]
      [] OTHER -> s

-----------------------------------------------------------------------------
(* emulate/execute_one.rs.                                                 *)

\* An interrupt entry that also clears the flags
handle_interrupt_clears_flags(s, interrupt_number) ==
    LET pushed == push([s EXCEPT !.interrupts_enabled = FALSE],
                       s.registers.program_counter)
    IN  IF pushed.panicked THEN pushed
        ELSE [pushed EXCEPT !.registers.program_counter = interrupt_number * 8,
                            !.flags = DefaultFlags]

\* An interrupt entry that leaves interrupts enabled
handle_interrupt_keeps_enabled(s, interrupt_number) ==
    LET pushed == push(s, s.registers.program_counter)
    IN  IF pushed.panicked THEN pushed
        ELSE [pushed EXCEPT !.registers.program_counter = interrupt_number * 8]

\* Emulator::handle_interrupt
handle_interrupt(s, interrupt_number) ==
    LET pushed == push([s EXCEPT !.interrupts_enabled = FALSE],
                       s.registers.program_counter)
    IN  IF pushed.panicked THEN pushed
        ELSE [pushed EXCEPT !.registers.program_counter = interrupt_number * 8]

\* Emulator::do_operation
do_operation(s, operation, reg, value) ==
    LET r == reg_index(s, reg)
        store(result, carry, aux) ==
            LET t == reg_index_mut(s, reg, result)
            IN  [t EXCEPT !.flags = set_from_arithmetic(
                                        [@ EXCEPT !.carry = carry,
                                                  !.auxiliary_carry = aux], result)]
    IN  CASE operation = "Add" ->
                LET sum == overflowing_add(r, value)
                IN  store(sum.value, sum.carry, BitAnd(r, 15) + BitAnd(value, 15) > 15)
          [] operation = "AddWithCarry" ->
                LET carry == s.flags.carry
                    sum == carrying_add_p(r, value, carry)
                IN  store(sum.value, sum.carry,
                          BitAnd(r, 15) + BitAnd(value, 15) + B2N(carry) > 15)
          [] operation = "Subtract" ->
                LET half == borrowing_sub_p(r \div 16, value \div 16, FALSE)
                    diff == borrowing_sub_p(r, value, FALSE)
                IN  store(diff.value, diff.carry, half.carry)
          [] operation = "SubtractWithBorrow" ->
                LET carry == s.flags.carry
                    half == borrowing_sub_p(r \div 16, value \div 16, carry)
                    diff == borrowing_sub_p(r, value, carry)
                IN  store(diff.value, diff.carry, half.carry)
          [] operation = "And" -> store(BitAnd(r, value), FALSE, FALSE)
          [] operation = "Or" -> store(BitOr(r, value), FALSE, FALSE)
          [] operation = "Xor" -> store(BitXor(r, value), FALSE, FALSE)
          [] operation = "Compare" ->
                LET half == borrowing_sub_p(BitAnd(r, 240), value, FALSE)
                    diff == borrowing_sub_p(r, value, FALSE)
                IN  [s EXCEPT !.flags = set_from_arithmetic(
                                            [@ EXCEPT !.carry = diff.carry,
                                                      !.auxiliary_carry = half.carry],
                                            diff.value)]

\* Emulator::get_stack_op_pair
get_stack_op_pair(s, pair) ==
    LET regs == s.registers
    IN  CASE pair = "Bc" -> from_le_bytes(regs.c, regs.b)
          [] pair = "De" -> from_le_bytes(regs.e, regs.d)
          [] pair = "Hl" -> from_le_bytes(regs.l, regs.h)
          [] pair = "FlagsA" -> from_le_bytes(regs.a, as_byte(s.flags))

\* Emulator::set_stack_op_pair
set_stack_op_pair(s, pair, value) ==
    LET bytes == to_le_bytes(value)
    IN  CASE pair = "Bc" -> [s EXCEPT !.registers.c = bytes[1], !.registers.b = bytes[2]]
          [] pair = "De" -> [s EXCEPT !.registers.e = bytes[1], !.registers.d = bytes[2]]
          [] pair = "Hl" -> [s EXCEPT !.registers.l = bytes[1], !.registers.h = bytes[2]]
          [] pair = "FlagsA" -> [s EXCEPT !.registers.a = bytes[1],
                                         !.flags = set_byte(@, bytes[2])]

\* A decimal adjust that never clears an incoming carry
decimal_adjust_keeps_carry(s) ==
    LET a == s.registers.a
        low0 == BitAnd(a, 15)
        high0 == a \div 16
        first == low0 > 9 \/ s.flags.auxiliary_carry
        low == IF first THEN low0 + 6 ELSE low0
        aux == IF first THEN low > 15 ELSE s.flags.auxiliary_carry
        high1 == IF first THEN high0 + (low \div 16) ELSE high0
        second == high1 > 9 \/ s.flags.carry
        high == IF second THEN high1 + 6 ELSE high1
        result == BitOr(U8(high * 16), BitAnd(low, 15))
    IN  [s EXCEPT !.registers.a = result,
                  !.flags = set_from_arithmetic(
                                [@ EXCEPT !.auxiliary_carry = aux,
                                          !.carry = s.flags.carry \/ high > 15],
                                result)]

\* The DecimalAdjustAccumulator arm of execute_one
decimal_adjust(s) ==
    LET a == s.registers.a
        low0 == BitAnd(a, 15)
        high0 == a \div 16
        first == low0 > 9 \/ s.flags.auxiliary_carry
        low == IF first THEN low0 + 6 ELSE low0
        aux == IF first THEN low > 15 ELSE s.flags.auxiliary_carry
        high1 == IF first THEN high0 + (low \div 16) ELSE high0
        second == high1 > 9 \/ s.flags.carry
        high == IF second THEN high1 + 6 ELSE high1
        carry == IF second THEN high > 15 ELSE s.flags.carry
        result == BitOr(U8(high * 16), BitAnd(low, 15))
    IN  [s EXCEPT !.registers.a = result,
                  !.flags = set_from_arithmetic(
                                [@ EXCEPT !.auxiliary_carry = aux, !.carry = carry],
                                result)]

\* The RotateAccumulator arms of execute_one
rotate_accumulator(s, operation) ==
    LET a == s.registers.a
        carry == s.flags.carry
    IN  CASE operation = "Left" ->
                [s EXCEPT !.flags.carry = BitAnd(a, 128) > 0,
                          !.registers.a = U8(a * 2) + (a \div 128)]
          [] operation = "Right" ->
                [s EXCEPT !.flags.carry = BitAnd(a, 1) > 0,
                          !.registers.a = (a \div 2) + 128 * (a % 2)]
          [] operation = "LeftThroughCarry" ->
                [s EXCEPT !.flags.carry = BitAnd(a, 128) > 0,
                          !.registers.a = BitOr(U8(a * 2), B2N(carry))]
          [] operation = "RightThroughCarry" ->
                [s EXCEPT !.flags.carry = BitAnd(a, 1) > 0,
                          !.registers.a = BitOr(a \div 2, U8(B2N(carry) * 128))]

\* The DirectAddress arms of execute_one
direct_address(s, operation, addr) ==
    CASE operation = "LoadAccumulator" ->
            [s EXCEPT !.registers.a = MemGet(s.memory, addr)]
      [] operation = "StoreAccumulator" ->
            [s EXCEPT !.memory = MemSet(@, addr, s.registers.a)]
      [] operation = "LoadHl" ->
            LET word == get_u16_at(s, addr)
            IN  IF word.panicked THEN [s EXCEPT !.panicked = TRUE]
                ELSE [s EXCEPT !.registers = set_hl(@, word.value)]
      [] operation = "StoreHl" -> set_u16_at(s, addr, hl(s.registers))

\* A next_instruction whose cast of the cursor saturates at 0xFFFF
next_instruction_saturating(s) ==
    LET out == decode(s.memory, new_at(MEMORY_SIZE, s.registers.program_counter))
    IN  [instruction |-> out.instruction,
         state |-> IF out.buffer.panicked THEN [s EXCEPT !.panicked = TRUE]
                   ELSE [s EXCEPT !.registers.program_counter =
                                      IF out.buffer.cursor > 65535 THEN 65535
                                      ELSE out.buffer.cursor]]

\* Emulator::next_instruction: decode at the program counter, then
\* program_counter = buffer.cursor() as u16
next_instruction(s) ==
    LET out == decode(s.memory, new_at(MEMORY_SIZE, s.registers.program_counter))
    IN  [instruction |-> out.instruction,
         state |-> IF out.buffer.panicked THEN [s EXCEPT !.panicked = TRUE]
                   ELSE [s EXCEPT !.registers.program_counter = U16(out.buffer.cursor)]]

\* The match of execute_one on the decoded instruction
execute_match(s, i, checks) ==
    LET op == i.op
        regs == s.registers
    IN  CASE op = "ComplementCarry" -> [s EXCEPT !.flags.carry = ~@]
          [] op = "SetCarry" -> [s EXCEPT !.flags.carry = TRUE]
          [] op = "Increment" -> do_operation(s, "Add", i.register, 1)
          [] op = "Decrement" -> do_operation(s, "Subtract", i.register, 1)
          [] op = "ComplementAccumulator" -> [s EXCEPT !.registers.a = BitNot8(@)]
          [] op = "DecimalAdjustAccumulator" -> decimal_adjust(s)
          [] op = "Nop" -> s
          [] op = "Move" -> reg_index_mut(s, i.destination, reg_index(s, i.source))
          [] op = "StoreAccumulator" ->
                [s EXCEPT !.memory = MemSet(@, get_small_pair(regs, i.addr_pair), regs.a)]
          [] op = "LoadAccumulator" ->
                [s EXCEPT !.registers.a = MemGet(s.memory, get_small_pair(regs, i.addr_pair))]
          [] op = "ToAccumulator" ->
                do_operation(s, i.operation, "A", reg_index(s, i.register))
          [] op = "RotateAccumulator" -> rotate_accumulator(s, i.operation)
          [] op = "Push" -> push(s, get_stack_op_pair(s, i.pair))
          [] op = "Pop" ->
                LET popped == pop(s)
                IN  IF popped.state.panicked THEN popped.state
                    ELSE set_stack_op_pair(popped.state, i.pair, popped.value)
          [] op = "AddToHl" ->
                LET sum == hl(regs) + get_pair(regs, i.pair)
                IN  [s EXCEPT !.flags.carry = sum > 65535,
                              !.registers = set_hl(@, U16(sum))]
          [] op = "IncrementPair" ->
                [s EXCEPT !.registers = set_pair(@, i.pair, U16(get_pair(regs, i.pair) + 1))]
          [] op = "DecrementPair" ->
                [s EXCEPT !.registers =
                              set_pair(@, i.pair, U16(get_pair(regs, i.pair) + 65535))]
          [] op = "ExchangeRegisters" ->
                [s EXCEPT !.registers =
                              set_pair(set_hl(@, get_pair(regs, "De")), "De", hl(regs))]
          [] op = "ExchangeStack" ->
                LET at_stack == get_at_stack(s)
                IN  IF at_stack.panicked THEN [s EXCEPT !.panicked = TRUE]
                    ELSE set_at_stack([s EXCEPT !.registers = set_hl(@, at_stack.value)],
                                      hl(regs))
          [] op = "LoadSpFromHl" -> [s EXCEPT !.registers.stack_pointer = hl(regs)]
          [] op = "LoadLargeImmediate" ->
                [s EXCEPT !.registers = set_pair(@, i.pair, i.value)]
          [] op = "LoadImmediate" -> reg_index_mut(s, i.reg, i.value)
          [] op = "ToAccumulatorImmediate" -> do_operation(s, i.operation, "A", i.value)
          [] op = "DirectAddress" -> direct_address(s, i.operation, i.addr)
          [] op = "LoadProgramCounter" -> [s EXCEPT !.registers.program_counter = hl(regs)]
          [] op = "Jump" ->
                IF evaluate(s.flags, i.condition)
                THEN [s EXCEPT !.registers.program_counter = i.addr]
                ELSE s
          [] op = "Call" ->
                IF evaluate(s.flags, i.condition)
                THEN LET pushed == push(s, regs.program_counter)
                     IN  IF pushed.panicked THEN pushed
                         ELSE [pushed EXCEPT !.registers.program_counter = i.addr]
                ELSE s
          [] op = "ReturnFromSubroutine" ->
                IF evaluate(s.flags, i.condition)
                THEN LET popped == pop(s)
                     IN  IF popped.state.panicked THEN popped.state
                         ELSE [popped.state EXCEPT
                                   !.registers.program_counter = popped.value]
                ELSE s
          [] op = "Restart" -> handle_interrupt(s, i.routine_number)
          [] op = "EnableInterrupts" -> [s EXCEPT !.interrupts_enabled = TRUE]
          [] op = "DisableInterrupts" -> [s EXCEPT !.interrupts_enabled = FALSE]
          [] op = "In" ->
                LET ret == read_port(s, i.port, checks)
                IN  IF ret.panicked THEN [s EXCEPT !.panicked = TRUE]
                    ELSE IF ret.some THEN [s EXCEPT !.registers.a = ret.value]
                    ELSE s
          [] op = "Out" -> write_port(s, i.port, regs.a)
          [] op = "Halt" -> s
          [] op = "Invalid" -> s

\* Emulator::execute_one: the state after, the instruction, and the result
\* ("Normal", or "Halt" carrying interrupts_enabled)
execute_one(s, checks) ==
    LET fetched == next_instruction([s EXCEPT !.played = <<>>])
        i == fetched.instruction
    IN  IF fetched.state.panicked
        THEN [state |-> fetched.state, instruction |-> i, result |-> "Normal"]
        ELSE [state |-> execute_match(fetched.state, i, checks),
              instruction |-> i,
              result |-> IF i.op = "Halt" THEN "Halt" ELSE "Normal"]

-----------------------------------------------------------------------------
(* isa/num_cycles.rs.                                                      *)

\* Instruction::num_cycles, its match arms in the order of the source
num_cycles(i, condition_was_true) ==
    LET op == i.op
    IN  IF op \in {"ComplementCarry", "SetCarry"} THEN 4
        ELSE IF op \in {"Increment", "Decrement"} /\ i.register = "MemoryRef" THEN 10
        ELSE IF op \in {"Increment", "Decrement"} THEN 5
        ELSE IF op \in {"ComplementAccumulator", "DecimalAdjustAccumulator", "Nop"} THEN 4
        ELSE IF op = "Move" /\ (i.source = "MemoryRef" \/ i.destination = "MemoryRef") THEN 7
        ELSE IF op = "Move" THEN 5
        ELSE IF op \in {"StoreAccumulator", "LoadAccumulator"} THEN 7
        ELSE IF op = "ToAccumulator" /\ i.register = "MemoryRef" THEN 7
        ELSE IF op \in {"ToAccumulator", "RotateAccumulator"} THEN 4
        ELSE IF op \in {"Push", "Pop"} THEN 11
        ELSE IF op = "AddToHl" THEN 10
        ELSE IF op \in {"IncrementPair", "DecrementPair", "ExchangeRegisters"} THEN 5
        ELSE IF op = "ExchangeStack" THEN 18
        ELSE IF op = "LoadSpFromHl" THEN 5
        ELSE IF op = "LoadLargeImmediate" THEN 10
        ELSE IF op = "LoadImmediate" /\ i.reg = "MemoryRef" THEN 10
        ELSE IF op \in {"LoadImmediate", "ToAccumulatorImmediate"} THEN 7
        ELSE IF op = "DirectAddress" THEN 13
        ELSE IF op = "LoadProgramCounter" THEN 5
        ELSE IF op = "Jump" THEN 10
        ELSE IF op = "Call" THEN (IF condition_was_true THEN 17 ELSE 11)
        ELSE IF op = "ReturnFromSubroutine" /\ i.condition = "Unconditional" THEN 10
        ELSE IF op = "ReturnFromSubroutine" THEN (IF condition_was_true THEN 11 ELSE 5)
        ELSE IF op = "Restart" THEN 11
        ELSE IF op \in {"EnableInterrupts", "DisableInterrupts"} THEN 4
        ELSE IF op \in {"In", "Out"} THEN 10
        ELSE IF op = "Halt" THEN 7
        ELSE 4

-----------------------------------------------------------------------------
(* The emulator state as one record, and its assignment back.               *)

Cpu == [registers |-> registers, flags |-> flags, memory |-> memory,
        interrupts_enabled |-> interrupts_enabled, shift_register |-> shift_register,
        buttons |-> buttons, sound_handler |-> sound_handler, played |-> played,
        sounds |-> sounds, panicked |-> FALSE]

SetCpu(s) ==
    /\ registers' = s.registers
    /\ flags' = s.flags
    /\ memory' = s.memory
    /\ interrupts_enabled' = s.interrupts_enabled
    /\ shift_register' = s.shift_register
    /\ buttons' = s.buttons
    /\ sound_handler' = s.sound_handler
    /\ played' = s.played
    /\ sounds' = s.sounds

-----------------------------------------------------------------------------
(* Bounds of the model.                                                    *)

MaxDispatch == 3    \* interrupts the main loop dispatches in one run
MaxSent == 2        \* button events the host sends in one run

-----------------------------------------------------------------------------
(* emulate/execute.rs: Emulator::execute, run by the thread of              *)
(* ui.rs spawn_emulator.  A panic of the host thread or its exit ends the    *)
(* process, and the emulator thread with it.                                *)

ProcessAlive == host_pc \notin {"exited", "panicked"}

VIDEO_START == 9216     \* 0x2400
VIDEO_END == 16383      \* 0x3fff

\* A slice that stops one byte short: memory[0x2400..0x3fff]
video_slice_exclusive(mem) ==
    [x \in {y \in DOMAIN mem : y >= VIDEO_START /\ y < VIDEO_END} |-> mem[x]]

\* &self.regs_and_mem.memory[0x2400..=0x3fff]
video_slice(mem) ==
    [x \in {y \in DOMAIN mem : y >= VIDEO_START /\ y <= VIDEO_END} |-> mem[x]]

\* An interrupt number that does not look at middle_scan
interrupt_number_fixed(scan) == 2

\* if middle_scan { 1 } else { 2 }
interrupt_number(scan) == IF scan THEN 1 ELSE 2

\* The emulator thread ends: the Emulator, and the Receiver in it, is dropped.
EmuEnds(how) ==
    /\ emu_pc' = how
    /\ rx_alive' = FALSE

\* Time has passed: the loop's next reading of last_interrupt.elapsed(), which
\* it takes at the interrupt slot, will find more than 1/120 s.
Tick ==
    /\ ProcessAlive
    /\ emu_pc = "slot"
    /\ timer = "early"
    /\ Len(dispatched) < MaxDispatch
    /\ timer' = "late"
    /\ UNCHANGED <<cpu_vars, host_vars, emu_pc, middle_scan, instruction, old_pc,
                   dispatched, video, last_op>>

\* handle_interrupt(..); middle_scan = !middle_scan; last_interrupt = now
Dispatch ==
    \E n \in {interrupt_number(middle_scan)} : \E s \in {handle_interrupt(Cpu, n)} :
        /\ SetCpu(s)
        /\ dispatched' = Append(dispatched, n)
        /\ IF s.panicked
           THEN /\ EmuEnds("panicked")
                /\ UNCHANGED <<middle_scan, timer>>
           ELSE /\ emu_pc' = "recv"
                /\ middle_scan' = ~middle_scan
                /\ timer' = "early"
                /\ UNCHANGED rx_alive

\* execute.rs 11-13: the test of the interrupt slot; the end-of-frame slot
\* first calls copy_video with the video memory.
EmuSlot ==
    /\ ProcessAlive
    /\ emu_pc = "slot"
    /\ IF interrupts_enabled /\ timer = "late"
       THEN IF ~middle_scan
            THEN /\ video' = video_slice(memory)
                 /\ emu_pc' = "lock"
                 /\ UNCHANGED <<cpu_vars, middle_scan, timer, dispatched, rx_alive>>
            ELSE /\ Dispatch
                 /\ UNCHANGED video
       ELSE /\ emu_pc' = "recv"
            /\ UNCHANGED <<cpu_vars, middle_scan, timer, dispatched, video, rx_alive>>
    /\ drained' = <<>>
    /\ UNCHANGED <<instruction, old_pc, last_op, frame, mutex, chan, sent, applied,
                   host_pc, renders>>

\* A callback that writes the frame without waiting for the mutex
EmuLockNoWait ==
    /\ ProcessAlive
    /\ emu_pc = "lock"
    /\ mutex' = "emu"
    /\ emu_pc' = "copy"
    /\ UNCHANGED <<cpu_vars, middle_scan, timer, instruction, old_pc, dispatched, video,
                   last_op, frame, chan, rx_alive, sent, applied, drained, host_pc,
                   renders>>

\* ui.rs 30: pixels.lock().unwrap() in the callback
EmuLock ==
    /\ ProcessAlive
    /\ emu_pc = "lock"
    /\ mutex = "none"
    /\ mutex' = "emu"
    /\ emu_pc' = "copy"
    /\ UNCHANGED <<cpu_vars, middle_scan, timer, instruction, old_pc, dispatched, video,
                   last_op, frame, chan, rx_alive, sent, applied, drained, host_pc,
                   renders>>

\* ui.rs 31-56: the loop writing the frame, here in two halves
EmuCopyFirst ==
    /\ ProcessAlive
    /\ emu_pc = "copy"
    /\ frame' = [frame EXCEPT !.first = @ + 1]
    /\ emu_pc' = "copy_rest"
    /\ UNCHANGED <<cpu_vars, middle_scan, timer, instruction, old_pc, dispatched, video,
                   last_op, mutex, chan, rx_alive, sent, applied, drained, host_pc,
                   renders>>

EmuCopySecond ==
    /\ ProcessAlive
    /\ emu_pc = "copy_rest"
    /\ frame' = [frame EXCEPT !.second = @ + 1]
    /\ emu_pc' = "unlock"
    /\ UNCHANGED <<cpu_vars, middle_scan, timer, instruction, old_pc, dispatched, video,
                   last_op, mutex, chan, rx_alive, sent, applied, drained, host_pc,
                   renders>>

\* ui.rs 57: the guard is dropped when the callback returns
EmuUnlock ==
    /\ ProcessAlive
    /\ emu_pc = "unlock"
    /\ mutex' = "none"
    /\ emu_pc' = "dispatch"
    /\ UNCHANGED <<cpu_vars, middle_scan, timer, instruction, old_pc, dispatched, video,
                   last_op, frame, chan, rx_alive, sent, applied, drained, host_pc,
                   renders>>

\* execute.rs 16-18 after the callback has returned
EmuDispatch ==
    /\ ProcessAlive
    /\ emu_pc = "dispatch"
    /\ Dispatch
    /\ UNCHANGED <<instruction, old_pc, video, last_op, frame, mutex, chan, sent,
                   applied, drained, host_pc, renders>>

\* A drain that takes the newest event of the channel first
EmuRecvNewestFirst ==
    /\ ProcessAlive
    /\ emu_pc = "recv"
    /\ IF chan # <<>>
       THEN /\ buttons' = update(buttons, chan[Len(chan)])
            /\ chan' = SubSeq(chan, 1, Len(chan) - 1)
            /\ applied' = Append(applied, chan[Len(chan)])
            /\ drained' = Append(drained, chan[Len(chan)])
            /\ UNCHANGED emu_pc
       ELSE /\ emu_pc' = "exec"
            /\ UNCHANGED <<buttons, chan, applied, drained>>
    /\ UNCHANGED <<registers, flags, memory, interrupts_enabled, shift_register,
                   sound_handler, played, sounds, middle_scan, timer,
                   instruction, old_pc, dispatched, video, last_op, frame, mutex,
                   rx_alive, sent, host_pc, renders>>

\* execute.rs 21-23: one turn of while let Ok(event) = try_recv()
EmuRecv ==
    /\ ProcessAlive
    /\ emu_pc = "recv"
    /\ IF chan # <<>>
       THEN /\ buttons' = update(buttons, Head(chan))
            /\ chan' = Tail(chan)
            /\ applied' = Append(applied, Head(chan))
            /\ drained' = Append(drained, Head(chan))
            /\ UNCHANGED emu_pc
       ELSE /\ emu_pc' = "exec"
            /\ UNCHANGED <<buttons, chan, applied, drained>>
    /\ UNCHANGED <<registers, flags, memory, interrupts_enabled, shift_register,
                   sound_handler, played, sounds, middle_scan, timer,
                   instruction, old_pc, dispatched, video, last_op, frame, mutex,
                   rx_alive, sent, host_pc, renders>>

\* execute.rs 25-41: execute_one and the match on its result
EmuExecute ==
    /\ ProcessAlive
    /\ emu_pc = "exec"
    /\ \E checks \in BOOLEAN : \E r \in {execute_one(Cpu, checks)} :
           /\ SetCpu(r.state)
           /\ instruction' = r.instruction
           /\ old_pc' = registers.program_counter
           /\ IF r.state.panicked THEN EmuEnds("panicked")
              ELSE IF r.result = "Normal" THEN emu_pc' = "slot" /\ UNCHANGED rx_alive
              ELSE IF ~r.state.interrupts_enabled THEN EmuEnds("done")
              ELSE emu_pc' = "sleep" /\ UNCHANGED rx_alive
    /\ UNCHANGED <<middle_scan, timer, dispatched, video, last_op, frame, mutex, chan,
                   sent, applied, drained, host_pc, renders>>

\* execute.rs 36-39: sleep until last_interrupt + 1/120 s
EmuSleep ==
    /\ ProcessAlive
    /\ emu_pc = "sleep"
    /\ (timer = "early") => (Len(dispatched) < MaxDispatch)
    /\ timer' = "late"
    /\ emu_pc' = "slot"
    /\ UNCHANGED <<cpu_vars, host_vars, middle_scan, instruction, old_pc, dispatched,
                   video, last_op>>

-----------------------------------------------------------------------------
(* ui.rs: the host event loop.  Each handler runs to completion before the  *)
(* next event is taken.                                                     *)

emu_vars == <<cpu_vars, loop_vars>>

\* The buttons of BUTTON_MAP the model's host presses and releases.
HostButtons == {"Coin"}

ButtonEvent == [button : HostButtons, pressed : BOOLEAN]

\* Event::RedrawRequested: pixels.lock() is requested
HostRedraw ==
    /\ host_pc = "idle"
    /\ host_pc' = "render_lock"
    /\ UNCHANGED <<emu_vars, frame, mutex, chan, rx_alive, sent, applied, drained, renders>>

\* WindowEvent::Resized: pixels.lock() is requested
HostResized ==
    /\ host_pc = "idle"
    /\ host_pc' = "resize_lock"
    /\ UNCHANGED <<emu_vars, frame, mutex, chan, rx_alive, sent, applied, drained, renders>>

\* pixels.lock().unwrap() returns the guard
HostLock ==
    /\ host_pc \in {"render_lock", "resize_lock"}
    /\ mutex = "none"
    /\ mutex' = "host"
    /\ host_pc' = IF host_pc = "render_lock" THEN "render" ELSE "resize"
    /\ UNCHANGED <<emu_vars, frame, chan, rx_alive, sent, applied, drained, renders>>

\* .render().unwrap(); the guard is dropped at the end of the statement
HostRender ==
    /\ host_pc = "render"
    /\ renders' = frame
    /\ mutex' = "none"
    /\ host_pc' = "idle"
    /\ UNCHANGED <<emu_vars, frame, chan, rx_alive, sent, applied, drained>>

\* .resize_surface(..); the guard is dropped at the end of the statement
HostResize ==
    /\ host_pc = "resize"
    /\ mutex' = "none"
    /\ host_pc' = "idle"
    /\ UNCHANGED <<emu_vars, frame, chan, rx_alive, sent, applied, drained, renders>>

\* WindowEvent::KeyboardInput for a key of BUTTON_MAP: button_sender.send(..).unwrap();
\* send fails, and unwrap panics, once the Receiver has been dropped.
HostKey ==
    /\ host_pc = "idle"
    /\ Len(sent) < MaxSent
    /\ \E event \in ButtonEvent :
          IF rx_alive
          THEN /\ chan' = Append(chan, event)
               /\ sent' = Append(sent, event)
               /\ UNCHANGED host_pc
          ELSE /\ host_pc' = "panicked"
               /\ UNCHANGED <<chan, sent>>
    /\ UNCHANGED <<emu_vars, frame, mutex, rx_alive, applied, drained, renders>>

\* WindowEvent::CloseRequested: control_flow.set_exit()
HostClose ==
    /\ host_pc = "idle"
    /\ host_pc' = "exited"
    /\ UNCHANGED <<emu_vars, frame, mutex, chan, rx_alive, sent, applied, drained, renders>>

-----------------------------------------------------------------------------
(* emulate/mod.rs: Emulator::new, and the programs the model runs.          *)

\* assert!(program.len() < MEMORY_SIZE - start), then the copy into zeroed memory
new_accepts(program, start) == Len(program) < MEMORY_SIZE - start

new_memory(program, start) ==
    [a \in {start + k - 1 : k \in {j \in 1..Len(program) : program[j] # 0}}
        |-> program[a - start + 1]]

Zeros(n) == [k \in 1..n |-> 0]

\* the bytes so far, zero-filled up to address `at`, then `bytes`
Seg(sofar, at, bytes) == sofar \o Zeros(at - Len(sofar)) \o bytes

\* 0000 DI | JMP 0020 | 0008 EI; RET | 0010 EI; RET
\* 0020 LXI SP,2400 | IN 1 | STA 3FFF | EI | HLT | JMP 0029
ProgramGame ==
    Seg(Seg(Seg(<<\hF3, \hC3, \h20, \h00>>,
                \h08, <<\hFB, \hC9>>),
            \h10, <<\hFB, \hC9>>),
        \h20, <<\h31, \h00, \h24, \hDB, \h01, \h32, \hFF, \h3F,
                \hFB, \h76, \hC3, \h29, \h00>>)

\* 0000 DI | IN 1 | STA 2400 | HLT | 0008 RET | 0010 RET
ProgramHalt ==
    Seg(Seg(<<\hF3, \hDB, \h01, \h32, \h00, \h24, \h76>>,
            \h08, <<\hC9>>),
        \h10, <<\hC9>>)

\* 0000 LXI SP,0001 | JMP 0003 | 0008 EI; RET | 0010 EI; RET:
\* the stack pointer is odd when an interrupt arrives
ProgramOddStack ==
    Seg(Seg(<<\h31, \h01, \h00, \hC3, \h03, \h00>>,
            \h08, <<\hFB, \hC9>>),
        \h10, <<\hFB, \hC9>>)

Programs == {ProgramGame, ProgramHalt, ProgramOddStack}

\* The fields Emulator::new sets, for a program loaded at `start`.
NewEmulator(program, start) ==
    /\ new_accepts(program, start)
    /\ registers = [DefaultRegisters EXCEPT !.program_counter = start]
    /\ flags = DefaultFlags
    /\ memory = new_memory(program, start)
    /\ interrupts_enabled = TRUE
    /\ shift_register = DefaultShiftRegister
    /\ buttons = 0
    /\ sound_handler = DefaultSoundHandler
    /\ played = <<>>
    /\ sounds = <<>>

\* The locals of Emulator::execute before its first iteration
LoopLocals ==
    /\ middle_scan = FALSE
    /\ timer = "early"
    /\ instruction = NoInstruction
    /\ dispatched = <<>>
    /\ video = ZeroMemory
    /\ last_op = [name |-> "none"]

\* ui.rs emulate(): the channel, the pixels and the host event loop at its start
HostStart ==
    /\ frame = [first |-> 0, second |-> 0]
    /\ mutex = "none"
    /\ chan = <<>>
    /\ rx_alive = TRUE
    /\ sent = <<>>
    /\ applied = <<>>
    /\ drained = <<>>
    /\ host_pc = "idle"
    /\ renders = [first |-> 0, second |-> 0]

\* ui.rs emulate(): channel, emulator, pixels, then spawn_emulator and the event loop
ThreadsStart ==
    /\ emu_pc = "slot"
    /\ old_pc = 0
    /\ LoopLocals
    /\ HostStart

Init ==
    /\ \E program \in Programs : NewEmulator(program, 0)
    /\ ThreadsStart

Next ==
    \/ Tick
    \/ EmuSlot
    \/ EmuLock
    \/ EmuCopyFirst
    \/ EmuCopySecond
    \/ EmuUnlock
    \/ EmuDispatch
    \/ EmuRecv
    \/ EmuExecute
    \/ EmuSleep
    \/ HostRedraw
    \/ HostResized
    \/ HostLock
    \/ HostRender
    \/ HostResize
    \/ HostKey
    \/ HostClose

Spec == Init /\ [][Next]_vars

-----------------------------------------------------------------------------
(* Instruction::decode on its own: one opcode with its operand bytes, at a  *)
(* cursor anywhere in the memory, the top of the address space included.    *)

DecodeCursors == {0, 256, 65533, 65534, 65535}
OperandBytes == {0, 18, 255}

\* memory[addr] = value where addr is inside the memory
Place(mem, addr, value) == IF addr < MEMORY_SIZE THEN MemSet(mem, addr, value) ELSE mem

\* The emulator's fields other than registers and memory, as constructed
RestOfEmulator ==
    /\ flags = DefaultFlags
    /\ interrupts_enabled = TRUE
    /\ shift_register = DefaultShiftRegister
    /\ buttons = 0
    /\ sound_handler = DefaultSoundHandler
    /\ played = <<>>
    /\ sounds = <<>>

InitDecode ==
    /\ \E opcode \in 0..255, lo \in OperandBytes, hi \in OperandBytes,
          cursor \in DecodeCursors :
          /\ memory = Place(Place(Place(ZeroMemory, cursor, opcode), cursor + 1, lo),
                            cursor + 2, hi)
          /\ registers = [DefaultRegisters EXCEPT !.program_counter = cursor]
          /\ old_pc = cursor
    /\ RestOfEmulator
    /\ emu_pc = "decode"
    /\ LoopLocals
    /\ HostStart

\* Instruction::decode(&mut Buffer::new_at(&memory, cursor))
Decode ==
    /\ emu_pc = "decode"
    /\ \E out \in {decode(memory, new_at(MEMORY_SIZE, old_pc))} :
          /\ instruction' = out.instruction
          /\ last_op' = [name |-> "decode", cursor |-> out.buffer.cursor,
                         panicked |-> out.buffer.panicked]
    /\ emu_pc' = "decoded"
    /\ UNCHANGED <<cpu_vars, host_vars, middle_scan, timer, old_pc, dispatched, video>>

SpecDecode == InitDecode /\ [][Decode]_vars

\* The opcode byte the decode was given
DecodedOpcode == MemGet(memory, old_pc)

\* The Instruction variant an arm's body constructs
ArmVariant(arm) ==
    CASE arm.body = "JumpUnconditional" -> "Jump"
      [] arm.body = "CallUnconditional" -> "Call"
      [] arm.body = "ReturnUnconditional" -> "ReturnFromSubroutine"
      [] OTHER -> arm.body

\* C1: the byte sets of the decoder's arms (with 0x76 taken out of MOV) are
\* pairwise disjoint and together are all of 0..255, so that every opcode byte
\* is accepted by exactly one arm, and a decode that returns returns the
\* Instruction variant of that arm.
C1_ExactlyOneArm ==
    /\ \A i, j \in 1..Len(Arms) : i # j => ArmBytes[i] \cap ArmBytes[j] = {}
    /\ UNION {ArmBytes[i] : i \in 1..Len(Arms)} = 0..255
    /\ last_op.name = "decode" =>
          /\ Cardinality(MatchingArms(DecodedOpcode)) = 1
          /\ ~last_op.panicked =>
                \A i \in MatchingArms(DecodedOpcode) : instruction.op = ArmVariant(Arms[i])

\* HLT (0x76), inside MOV's pattern but excluded from it, has been decoded as Halt.
C1_Witness ==
    /\ last_op.name = "decode"
    /\ DecodedOpcode = 118
    /\ instruction.op = "Halt"

\* The length of an instruction in the opcode table
TableLength(op) ==
    IF op \in {"In", "Out", "LoadImmediate", "ToAccumulatorImmediate"} THEN 2
    ELSE IF op \in {"LoadLargeImmediate", "DirectAddress", "Jump", "Call"} THEN 3
    ELSE 1

\* The 16-bit immediate of a decoded instruction
Immediate16(i) == IF i.op = "LoadLargeImmediate" THEN i.value ELSE i.addr

\* The 8-bit immediate of a decoded instruction
Immediate8(i) == IF i.op \in {"In", "Out"} THEN i.port ELSE i.value

\* C2: a decode that returns has advanced the cursor by the length of the
\* instruction in the opcode table (1, 2 or 3 bytes), an 8-bit immediate is
\* byte[cursor+1], and a 16-bit immediate is byte[cursor+1] + 256 * byte[cursor+2].
C2_CursorAndImmediate ==
    (last_op.name = "decode" /\ ~last_op.panicked) =>
        /\ last_op.cursor - old_pc = TableLength(instruction.op)
        /\ TableLength(instruction.op) = 2 =>
              Immediate8(instruction) = MemGet(memory, old_pc + 1)
        /\ TableLength(instruction.op) = 3 =>
              Immediate16(instruction) =
                  MemGet(memory, old_pc + 1) + 256 * MemGet(memory, old_pc + 2)

\* JMP with the operand bytes 0x12 0xFF has been decoded to the address 0xFF12.
C2_Witness ==
    /\ last_op.name = "decode"
    /\ ~last_op.panicked
    /\ instruction.op = "Jump"
    /\ last_op.cursor = old_pc + 3
    /\ MemGet(memory, old_pc + 1) = 18
    /\ instruction.addr = 65298

-----------------------------------------------------------------------------
(* Emulator::execute_one on its own: one instruction executed from a state  *)
(* whose PC, SP, HL and operand bytes include the top of the address space. *)

ExecPCs == {0, 256, 65533, 65534, 65535}
ExecSPs == {0, 1, 2, 9216, 65534, 65535}
ExecOperands == {<<0, 36>>, <<254, 255>>, <<255, 255>>}

InitExec ==
    /\ \E opcode \in 0..255, operand \in ExecOperands, pc \in ExecPCs, sp \in ExecSPs :
          /\ memory = Place(Place(Place(ZeroMemory, pc, opcode), pc + 1, operand[1]),
                            pc + 2, operand[2])
          /\ registers = [DefaultRegisters EXCEPT !.program_counter = pc,
                                                  !.stack_pointer = sp,
                                                  !.l = operand[1], !.h = operand[2]]
    /\ RestOfEmulator
    /\ emu_pc = "exec"
    /\ old_pc = 0
    /\ LoopLocals
    /\ HostStart

SpecExec == InitExec /\ [][EmuExecute]_vars

\* C3: executing one instruction never aborts: the fetch at PC and the word
\* accesses at SP and at a direct address all stay inside the 65 536 bytes,
\* wherever they start.
C3_NeverAborts == emu_pc # "panicked"

\* A word access at 0xFFFE, the last one that fits: POP from SP = 0xFFFE has
\* completed and left SP = 0.
C3_Witness ==
    /\ emu_pc = "slot"
    /\ instruction.op = "Pop"
    /\ registers.stack_pointer = 0
    /\ old_pc = 65535

-----------------------------------------------------------------------------
(* RegistersAndMemory::push and pop on their own: a push, then a pop.       *)

StackSPs == {0, 1, 2, 3, 4, 9216, 9217, 32768, 65532, 65533, 65534, 65535}
StackValues == {0, 1, 4660, 65280, 65535}

InitStack ==
    /\ \E sp \in StackSPs : registers = [DefaultRegisters EXCEPT !.stack_pointer = sp]
    /\ memory = ZeroMemory
    /\ RestOfEmulator
    /\ emu_pc = "push"
    /\ old_pc = 0
    /\ LoopLocals
    /\ HostStart

\* regs_and_mem.push(value)
StackPush ==
    /\ emu_pc = "push"
    /\ \E value \in StackValues : \E s \in {push(Cpu, value)} :
          /\ SetCpu(s)
          /\ last_op' = [name |-> "push", value |-> value,
                         sp |-> registers.stack_pointer, popped |-> 0]
          /\ emu_pc' = IF s.panicked THEN "panicked" ELSE "pop"
    /\ UNCHANGED <<host_vars, middle_scan, timer, instruction, old_pc, dispatched, video>>

\* regs_and_mem.pop()
StackPop ==
    /\ emu_pc = "pop"
    /\ \E r \in {pop(Cpu)} :
          /\ SetCpu(r.state)
          /\ last_op' = [last_op EXCEPT !.name = "pop", !.popped = r.value]
          /\ emu_pc' = IF r.state.panicked THEN "panicked" ELSE "popped"
    /\ UNCHANGED <<host_vars, middle_scan, timer, instruction, old_pc, dispatched, video>>

NextStack == StackPush \/ StackPop

SpecStack == InitStack /\ [][NextStack]_vars

\* C4: for every value and every SP, push sets SP to (SP - 2) mod 2^16, and the
\* pop that follows returns the value pushed and sets SP back to where it was.
C4_PushThenPop ==
    /\ emu_pc # "panicked"
    /\ last_op.name = "push" => registers.stack_pointer = (last_op.sp - 2) % 65536
    /\ last_op.name = "pop" =>
          /\ last_op.popped = last_op.value
          /\ registers.stack_pointer = last_op.sp

\* A push at SP = 0 wrapped to 0xFFFE, and the pop returned the value and SP = 0.
C4_Witness ==
    /\ emu_pc = "popped"
    /\ last_op.name = "pop"
    /\ last_op.sp = 0
    /\ last_op.value = 4660
    /\ last_op.popped = 4660
    /\ registers.stack_pointer = 0

-----------------------------------------------------------------------------
(* The main loop of Emulator::execute: interrupts, video copy, termination. *)

Last(seq) == seq[Len(seq)]

\* C5: the interrupt numbers the main loop dispatches alternate between 2 and
\* 1 over the whole run: each is 1 or 2 and differs from the one before it.
C5_Alternate ==
    \A k \in 1..Len(dispatched) :
        /\ dispatched[k] \in {1, 2}
        /\ k > 1 => dispatched[k] # dispatched[k - 1]

\* Three interrupts have been dispatched, with handlers that re-enable
\* interrupts and a Halt executed after the last one.
C5_Witness ==
    /\ dispatched = <<2, 1, 2>>
    /\ instruction.op = "Halt"
    /\ emu_pc = "sleep"

\* The loop takes the interrupt slot in this step: interrupts are enabled and
\* more than 1/120 s has elapsed since the previous interrupt.
SlotTaken ==
    /\ emu_pc = "slot"
    /\ emu_pc' # "slot"
    /\ interrupts_enabled
    /\ timer = "late"

\* The slice is memory[0x2400..=0x3fff]: it agrees with the memory on every
\* address of that range and holds nothing else.
IsVideoMemory(slice, mem) ==
    \A a \in DOMAIN mem \cup DOMAIN slice \cup {9215, 9216, 16383, 16384} :
        MemGet(slice, a) = IF a >= 9216 /\ a <= 16383 THEN MemGet(mem, a) ELSE 0

\* C6 (as the code has it): at an interrupt slot the callback is invoked, with
\* exactly memory[0x2400..=0x3fff], if and only if the most recently
\* dispatched interrupt was number 1 or none has been dispatched yet; the
\* interrupt dispatched after the callback returns is number 2.
C6_CopyBeforeEndOfFrame ==
    [][/\ SlotTaken =>
             /\ (emu_pc' = "lock") <=> (dispatched = <<>> \/ Last(dispatched) = 1)
             /\ emu_pc' = "lock" => IsVideoMemory(video', memory)
       /\ (emu_pc' = "lock" /\ emu_pc # "lock") => SlotTaken
       /\ (emu_pc = "dispatch" /\ dispatched' # dispatched) => Last(dispatched') = 2
      ]_vars

\* The callback has been handed a slice holding the last byte of the video
\* memory, 0x3fff, written by the program.
C6_Witness ==
    /\ emu_pc = "lock"
    /\ 16383 \in DOMAIN video
    /\ dispatched = <<2, 1>>

\* C6 (as stated): at an interrupt slot the callback is invoked if and only if
\* the most recently dispatched interrupt was number 2.
C6_CopyAfterEndOfFrame ==
    [][SlotTaken =>
          ((emu_pc' = "lock") <=> (dispatched # <<>> /\ Last(dispatched) = 2))
      ]_vars

\* C7: an interrupt is dispatched only with interrupts enabled, and the
\* dispatch of n disables interrupts, pushes the PC and sets PC to 8 * n,
\* changing no other register, flag or memory byte.
C7_DispatchEffect ==
    [][dispatched' # dispatched =>
          LET n == Last(dispatched')
              sp == (registers.stack_pointer - 2) % 65536
              pc == registers.program_counter
          IN  /\ interrupts_enabled
              /\ ~interrupts_enabled'
              /\ emu_pc' # "panicked"
              /\ registers' = [registers EXCEPT !.stack_pointer = sp,
                                                !.program_counter = 8 * n]
              /\ memory' = MemSet(MemSet(memory, sp, pc % 256),
                                  (sp + 1) % 65536, pc \div 256)
              /\ flags' = flags
              /\ shift_register' = shift_register
              /\ buttons' = buttons
              /\ sound_handler' = sound_handler
      ]_vars

\* Interrupt 1 has been dispatched with the stack inside the memory: PC is 8
\* and the return address is on the stack.
C7_Witness ==
    /\ emu_pc = "recv"
    /\ dispatched = <<2, 1>>
    /\ registers.program_counter = 8
    /\ registers.stack_pointer = 9214
    /\ ~interrupts_enabled

\* The emulator thread has left the main loop.
LoopEnded == emu_pc \in {"done", "panicked"}

\* C8: the main loop ends when, and only when, a Halt is executed while
\* interrupts are disabled; a Halt with interrupts enabled does not end it.
C8_EndsOnlyOnHalt ==
    [][/\ (LoopEnded' /\ ~LoopEnded) =>
             (emu_pc = "exec" /\ instruction'.op = "Halt" /\ ~interrupts_enabled')
       /\ (emu_pc = "exec" /\ emu_pc' # "exec" /\ instruction'.op = "Halt") =>
             (LoopEnded' <=> ~interrupts_enabled')
      ]_vars

\* The loop has ended on a Halt executed with interrupts disabled.
C8_Witness ==
    /\ emu_pc = "done"
    /\ instruction.op = "Halt"
    /\ ~interrupts_enabled

-----------------------------------------------------------------------------
(* The channel of button events between the host and the emulator thread.   *)

\* Bit `bit` of port 1 after the events: as the last event for that bit says,
\* and 0 when there is none.
BitAfter(events, bit) ==
    LET hits == {k \in 1..Len(events) : to_bit(events[k]) = bit}
    IN  IF hits = {} THEN 0
        ELSE B2N(events[CHOOSE k \in hits : \A j \in hits : j <= k].pressed)

\* C9 (as the code has it): the events applied to the button byte are, in
\* order and without repetition, the events sent, less those still in the
\* channel; the button byte is the result of applying them in that order; the
\* events drained in an iteration are applied before its instruction, so that
\* an IN 1 executed in it reads a byte that includes them.
C9_AppliedInOrder ==
    /\ sent = applied \o chan
    /\ \A bit \in 0..7 : Bit(buttons, bit) = BitAfter(applied, bit)
    /\ Len(drained) <= Len(applied)
    /\ drained = SubSeq(applied, Len(applied) - Len(drained) + 1, Len(applied))
    /\ (emu_pc \in {"slot", "sleep", "done"} /\ instruction.op = "In"
          /\ instruction.port = 1) =>
          \A bit \in 0..7 : Bit(registers.a, bit) = BitAfter(applied, bit)

\* Two events were drained in one iteration, a release and then a press of
\* the coin button, and the IN 1 of that iteration has read the pressed bit.
C9_Witness ==
    /\ emu_pc = "slot"
    /\ instruction = [op |-> "In", port |-> 1]
    /\ Len(drained) = 2
    /\ ~drained[1].pressed
    /\ drained[2].pressed
    /\ registers.a = 1

\* C9 (as stated): every event sent is applied, none is lost: when the main
\* loop has ended on a Halt, the events applied are all the events sent.
C9_NoEventLost == emu_pc = "done" => applied = sent

-----------------------------------------------------------------------------
(* The Mutex<Pixels> shared by the callback and the host's handlers.        *)

\* A holder of the mutex releases it, and a thread waiting for it gets it if
\* it is free again and again.
Fairness ==
    /\ WF_vars(EmuCopyFirst)
    /\ WF_vars(EmuCopySecond)
    /\ WF_vars(EmuUnlock)
    /\ WF_vars(HostRender)
    /\ WF_vars(HostResize)
    /\ SF_vars(EmuLock)
    /\ SF_vars(HostLock)

FairSpec == Spec /\ Fairness

EmuWritesFrame == emu_pc \in {"copy", "copy_rest", "unlock"}
HostUsesFrame == host_pc \in {"render", "resize"}
HostWaits == host_pc \in {"render_lock", "resize_lock"}
EmuWaits == emu_pc = "lock"

\* The frame is written, rendered and resized only under the mutex, by one
\* thread at a time, and no render has seen a frame half written.
MutualExclusion ==
    /\ EmuWritesFrame => mutex = "emu"
    /\ HostUsesFrame => mutex = "host"
    /\ ~(EmuWritesFrame /\ HostUsesFrame)
    /\ renders.first = renders.second

-----------------------------------------------------------------------------
(* The emulator thread on its own: no time passes and the host sends        *)
(* nothing, so each turn of the loop in Emulator::execute skips the         *)
(* interrupt slot, drains an empty channel and executes one instruction.    *)

NextAlone == EmuSlot \/ EmuRecv \/ EmuExecute

-----------------------------------------------------------------------------
(* Programs that write to the ports.  Each write is MVI A,value ; OUT port  *)
(* (3E vv D3 pp), the writes are laid out from address 0 and followed by a  *)
(* tail that ends in HLT.                                                   *)

MaxShiftWrites == 3     \* writes to ports 2 and 4 in one program
MaxSoundWrites == 4     \* writes to ports 3 and 5 in one program

RECURSIVE WriteBytes(_)
WriteBytes(writes) ==
    IF writes = <<>> THEN <<>>
    ELSE <<62, Head(writes)[2], 211, Head(writes)[1]>> \o WriteBytes(Tail(writes))

PortProgram(writes, tail) == WriteBytes(writes) \o tail

SeqsUpTo(S, n) == UNION {[1..k -> S] : k \in 0..n}

\* <<port, value>>: offsets 3, 7 and 11; shifted bytes 0x12, 0x34 and 0xFF
ShiftWrites == {<<2, 3>>, <<2, 7>>, <<2, 11>>, <<4, 18>>, <<4, 52>>, <<4, 255>>}

\* IN 3 ; HLT
ShiftTail == <<219, 3, 118>>

InitShift ==
    /\ \E writes \in SeqsUpTo(ShiftWrites, MaxShiftWrites) :
           NewEmulator(PortProgram(writes, ShiftTail), 0)
    /\ ThreadsStart

SpecShift == InitShift /\ [][NextAlone]_vars

\* The writes of the loaded program, read back from memory
ProgramLength == Cardinality({k \in 0..16 : MemGet(memory, 4 * k) = 62})
ProgramWrites ==
    [k \in 1..ProgramLength |->
        <<MemGet(memory, 4 * (k - 1) + 3), MemGet(memory, 4 * (k - 1) + 1)>>]

\* How many of them have been executed when the program counter is where it is
WritesDone ==
    IF registers.program_counter \div 4 < ProgramLength
    THEN registers.program_counter \div 4 ELSE ProgramLength

\* The values written so far to `port`, oldest first
RECURSIVE ValuesTo(_, _)
ValuesTo(port, writes) ==
    IF writes = <<>> THEN <<>>
    ELSE (IF Head(writes)[1] = port THEN <<Head(writes)[2]>> ELSE <<>>)
         \o ValuesTo(port, Tail(writes))
Written(port) == ValuesTo(port, SubSeq(ProgramWrites, 1, WritesDone))

\* The k-th value from the end of a sequence of bytes, 0 when there is none
FromEnd(values, k) == IF Len(values) >= k THEN values[Len(values) - k + 1] ELSE 0

-----------------------------------------------------------------------------
(* C11: after any sequence of OUT instructions the stored offset of the     *)
(* shift register is the last value written to port 2, masked with 0x07     *)
(* (0 when port 2 was never written), so it is always in 0..7.              *)

C11_OffsetMasked ==
    /\ shift_register.offset = BitAnd(FromEnd(Written(2), 1), 7)
    /\ shift_register.offset \in 0..7

\* what the code stores instead
C11_OffsetStored == shift_register.offset = FromEnd(Written(2), 1)

C11_Witness ==
    /\ Written(2) # <<>>
    /\ FromEnd(Written(2), 1) = 11
    /\ shift_register.offset = 11


-----------------------------------------------------------------------------
(* C12: after any sequence of writes to ports 2 and 4, a read of port 3     *)
(* returns ((high << 8 | low) >> (8 - offset)) & 0xFF, high being the last  *)
(* byte written to port 4, low the one before it (0 when absent) and offset *)
(* the stored offset; a write to port 4 changes only low and high, and a    *)
(* read changes nothing.                                                    *)

\* x >> n for an integer n: a right shift by a negative count is a left shift
ShiftRight(x, n) == IF n >= 0 THEN x \div (2 ^ n) ELSE x * (2 ^ (0 - n))

ReadOfPort3 == instruction.op = "In" /\ instruction.port = 3

C12_ShiftRead ==
    /\ shift_register.high = FromEnd(Written(4), 1)
    /\ shift_register.low = FromEnd(Written(4), 2)
    /\ shift_register.offset = FromEnd(Written(2), 1)
    /\ ReadOfPort3 =>
          /\ emu_pc # "panicked"
          /\ registers.a = ShiftRight(FromEnd(Written(4), 1) * 256 + FromEnd(Written(4), 2),
                                      8 - shift_register.offset) % 256

\* the same, for the offsets a masked write would store
C12_ShiftReadInRange == (shift_register.offset <= 7) => C12_ShiftRead

C12_Witness ==
    /\ ReadOfPort3
    /\ emu_pc # "panicked"
    /\ Written(4) = <<18, 52>>
    /\ shift_register.offset = 7
    /\ registers.a = 9


-----------------------------------------------------------------------------
(* C13: from a zeroed shift register, OUT 2 <- 3, OUT 4 <- 0x12 and         *)
(* OUT 4 <- 0x34 followed by IN 3 leave a fixed byte in A.  The code        *)
(* leaves 0xA0 = (0x3412 >> 5) & 0xFF; the value 0x91 is not what it        *)
(* leaves.                                                                  *)

Scenario13 ==
    /\ ProgramWrites = <<<<2, 3>>, <<4, 18>>, <<4, 52>>>>
    /\ ReadOfPort3

C13_ScenarioLeavesA0 == Scenario13 => (emu_pc # "panicked" /\ registers.a = 160)

C13_ScenarioLeaves91 == Scenario13 => (emu_pc # "panicked" /\ registers.a = 145)

C13_Witness ==
    /\ Scenario13
    /\ emu_pc = "slot"
    /\ shift_register = [low |-> 18, high |-> 52, offset |-> 3]


-----------------------------------------------------------------------------
(* Programs that write to the sound ports 3 and 5.                          *)

\* <<port, value>>: port 3 with bits 0..3, port 5 with bits 0..4
SoundWrites == {<<3, 0>>, <<3, 2>>, <<3, 1>>, <<3, 15>>, <<5, 10>>, <<5, 31>>}

\* HLT
SoundTail == <<118>>

InitSound ==
    /\ \E writes \in SeqsUpTo(SoundWrites, MaxSoundWrites) :
           NewEmulator(PortProgram(writes, SoundTail), 0)
    /\ ThreadsStart

SpecSound == InitSound /\ [][NextAlone]_vars

\* The write an OUT has just made: its port, its value, and the value written
\* to that port before it (0 when there was none)
JustWrote(port) == instruction.op = "Out" /\ instruction.port = port
ValueWritten == ProgramWrites[WritesDone][2]
ValueBefore(port) ==
    FromEnd(ValuesTo(port, SubSeq(ProgramWrites, 1, WritesDone - 1)), 1)

BitOf(value, bit) == (value \div (2 ^ bit)) % 2
Rises(port, bit) == BitOf(ValueWritten, bit) = 1 /\ BitOf(ValueBefore(port), bit) = 0
Falls(port, bit) == BitOf(ValueWritten, bit) = 0 /\ BitOf(ValueBefore(port), bit) = 1

Count(seq, x) == Cardinality({k \in 1..Len(seq) : seq[k] = x})

\* the one-shot sound of each bit of each port
OneShot3 == [b \in 1..3 |-> <<"Shot", "Flash", "InvaderDie">>[b]]
OneShot5 == [b \in 0..4 |-> <<"FleetMovement1", "FleetMovement2", "FleetMovement3",
                              "FleetMovement4", "UfoHit">>[b + 1]]

-----------------------------------------------------------------------------
(* C14: over any sequence of writes to ports 3 and 5, a write emits the     *)
(* one-shot sound of a bit (Shot, Flash, InvaderDie for bits 1..3 of port   *)
(* 3; FleetMovement1..4, UfoHit for bits 0..4 of port 5) exactly when that  *)
(* bit is 1 in the value written and 0 in the value written to the port     *)
(* before (0 at first); the writes 0x00, 0x02, 0x02, 0x00 to port 3 emit    *)
(* one Shot and nothing else.                                               *)

C14_OneShotOnRisingEdge ==
    /\ JustWrote(3) =>
          /\ \A b \in 1..3 : Count(played, OneShot3[b]) = (IF Rises(3, b) THEN 1 ELSE 0)
          /\ \A b \in 0..4 : Count(played, OneShot5[b]) = 0
    /\ JustWrote(5) =>
          /\ \A b \in 0..4 : Count(played, OneShot5[b]) = (IF Rises(5, b) THEN 1 ELSE 0)
          /\ \A b \in 1..3 : Count(played, OneShot3[b]) = 0
          /\ Count(played, "UfoStart") = 0 /\ Count(played, "UfoStop") = 0
    /\ (ProgramWrites = <<<<3, 0>>, <<3, 2>>, <<3, 2>>, <<3, 0>>>> /\ WritesDone = 4)
          => sounds = <<"Shot">>

C14_Witness ==
    /\ ProgramWrites = <<<<3, 0>>, <<3, 2>>, <<3, 2>>, <<3, 0>>>>
    /\ WritesDone = 4
    /\ JustWrote(3)
    /\ sounds = <<"Shot">>

C14_WitnessPort5 ==
    /\ JustWrote(5)
    /\ ValueBefore(5) = 10
    /\ ValueWritten = 31
    /\ played = <<"FleetMovement1", "FleetMovement3", "UfoHit">>

-----------------------------------------------------------------------------
(* C15: over any sequence of writes to port 3, UfoStart is emitted exactly  *)
(* on the writes where bit 0 rises and UfoStop exactly on the writes where  *)
(* bit 0 falls, so the two strictly alternate and the first is a UfoStart.  *)

\* the UfoStart and UfoStop events among all the sounds played, in order
RECURSIVE UfoEvents(_)
UfoEvents(seq) ==
    IF seq = <<>> THEN <<>>
    ELSE (IF Head(seq) \in {"UfoStart", "UfoStop"} THEN <<Head(seq)>> ELSE <<>>)
         \o UfoEvents(Tail(seq))

C15_UfoStartStop ==
    /\ JustWrote(3) =>
          /\ Count(played, "UfoStart") = (IF Rises(3, 0) THEN 1 ELSE 0)
          /\ Count(played, "UfoStop") = (IF Falls(3, 0) THEN 1 ELSE 0)
    /\ \A k \in 1..Len(UfoEvents(sounds)) :
          UfoEvents(sounds)[k] = (IF k % 2 = 1 THEN "UfoStart" ELSE "UfoStop")

C15_Witness ==
    /\ JustWrote(3)
    /\ Falls(3, 0)
    /\ UfoEvents(sounds) = <<"UfoStart", "UfoStop", "UfoStart", "UfoStop">>


-----------------------------------------------------------------------------
(* One IN instruction (DB pp) executed from a state the program can have    *)
(* reached: any port, buttons held or not, bytes in the shift register and  *)
(* an offset left there by OUT 2.                                           *)

InPCs == {0, 256}
InAccumulators == {0, 170}
InButtons == {0, 85}
InOffsets == {0, 3, 7, 11}

InitIn ==
    /\ \E port \in 0..255, pc \in InPCs, a \in InAccumulators :
          /\ memory = Place(Place(ZeroMemory, pc, 219), pc + 1, port)
          /\ registers = [DefaultRegisters EXCEPT !.program_counter = pc, !.a = a]
    /\ flags = DefaultFlags
    /\ interrupts_enabled = TRUE
    /\ \E offset \in InOffsets : shift_register = [low |-> 18, high |-> 52, offset |-> offset]
    /\ buttons \in InButtons
    /\ sound_handler = DefaultSoundHandler
    /\ played = <<>>
    /\ sounds = <<>>
    /\ emu_pc = "exec"
    /\ old_pc = 0
    /\ LoopLocals
    /\ HostStart

SpecIn == InitIn /\ [][EmuExecute]_vars

-----------------------------------------------------------------------------
(* C16: In(port) sets A to 0x0E for port 0, to the buttons byte for port 1, *)
(* to 0 for port 2 and to the shift-register read for port 3; for every     *)
(* other port A is left unchanged; and in all cases nothing but A and PC    *)
(* changes.                                                                 *)

\* the byte IN is to leave in A, from the state before it
InValue(port) ==
    CASE port = 0 -> 14
      [] port = 1 -> buttons
      [] port = 2 -> 0
      [] port = 3 -> ShiftRight(shift_register.high * 256 + shift_register.low,
                                8 - shift_register.offset) % 256
      [] OTHER -> registers.a

InEffect ==
    /\ emu_pc' # "panicked"
    /\ instruction'.op = "In"
    /\ instruction'.port = MemGet(memory, registers.program_counter + 1)
    /\ registers' = [registers EXCEPT !.a = InValue(instruction'.port),
                                      !.program_counter = @ + 2]
    /\ UNCHANGED <<flags, memory, interrupts_enabled, shift_register, buttons,
                   sound_handler, sounds>>

C16_InEffect == [][InEffect]_vars

\* the same, from the offsets a masked write would store
C16_InEffectInRange == [][(shift_register.offset <= 7) => InEffect]_vars

C16_Witness ==
    /\ instruction.op = "In"
    /\ instruction.port = 3
    /\ emu_pc = "slot"
    /\ shift_register.offset = 3
    /\ registers.a = 160

C16_WitnessUnattached ==
    /\ instruction.op = "In"
    /\ instruction.port = 7
    /\ emu_pc = "slot"
    /\ registers.a = 170


-----------------------------------------------------------------------------
(* Buttons::update applied on its own to a sequence of events of all five   *)
(* buttons.                                                                 *)

MaxEvents == 3      \* events applied to the buttons byte in one run

AllEvents == [button : Button, pressed : BOOLEAN]

InitButtons ==
    /\ registers = DefaultRegisters
    /\ memory = ZeroMemory
    /\ RestOfEmulator
    /\ emu_pc = "recv"
    /\ old_pc = 0
    /\ LoopLocals
    /\ HostStart

\* buttons.update(event)
ButtonsUpdate ==
    /\ emu_pc = "recv"
    /\ Len(applied) < MaxEvents
    /\ \E event \in AllEvents :
          /\ buttons' = update(buttons, event)
          /\ applied' = Append(applied, event)
    /\ UNCHANGED <<registers, flags, memory, interrupts_enabled, shift_register,
                   sound_handler, played, sounds, loop_vars, frame, mutex, chan,
                   rx_alive, sent, drained, host_pc, renders>>

SpecButtons == InitButtons /\ [][ButtonsUpdate]_vars

-----------------------------------------------------------------------------
(* C17: a button event sets (pressed) or clears (released) exactly the bit  *)
(* of its button in the port-1 byte (Coin 0, Start 2, Shoot 4, Left 5,      *)
(* Right 6) and leaves the other bits alone; after any sequence of events   *)
(* the bit of each button is the pressed state of the latest event for     *)
(* that button (0 if none), and bits 1, 3 and 7 are 0.                      *)

ButtonBit(button) ==
    CASE button = "Coin" -> 0
      [] button = "Start" -> 2
      [] button = "Shoot" -> 4
      [] button = "Left" -> 5
      [] button = "Right" -> 6

\* 1 iff the latest of `events` for `button` is a press
LatestPressed(events, button) ==
    LET hits == {k \in 1..Len(events) : events[k].button = button}
    IN  IF hits = {} THEN 0
        ELSE IF events[CHOOSE k \in hits : \A j \in hits : j <= k].pressed THEN 1 ELSE 0

C17_ButtonBits ==
    /\ \A button \in Button :
          BitOf(buttons, ButtonBit(button)) = LatestPressed(applied, button)
    /\ \A bit \in {1, 3, 7} : BitOf(buttons, bit) = 0
    /\ buttons \in 0..255

C17_Witness ==
    /\ Len(applied) = 3
    /\ applied[1] = [button |-> "Left", pressed |-> TRUE]
    /\ applied[2] = [button |-> "Shoot", pressed |-> TRUE]
    /\ applied[3] = [button |-> "Left", pressed |-> FALSE]
    /\ buttons = 16


-----------------------------------------------------------------------------
(* One jump, call or return at BranchAt, for every opcode of the three      *)
(* families and every value of the flags.  Its operand is BranchTarget,     *)
(* where a return opcode stands; HLT follows the branch, follows that       *)
(* return, and stands at address 0, where a return from an empty stack      *)
(* lands.                                                                   *)

BranchAt == 256         \* 0x0100
BranchTarget == 512     \* 0x0200

\* 11ccc010 Jcc, C3 CB JMP; 11ccc100 Ccc, CD DD ED FD CALL; 11ccc000 Rcc, C9 D9 RET
BranchOpcodes ==
    {192 + 8 * c + low : c \in 0..7, low \in {0, 2, 4}}
        \cup {195, 203, 205, 221, 237, 253, 201, 217}

\* RET, RNZ, RZ
ReturnOpcodes == {201, 192, 200}

BranchSPs == {9216, 1, 65534, 65535}

AllFlags == [carry : BOOLEAN, auxiliary_carry : BOOLEAN, sign_positive : BOOLEAN,
             zero : BOOLEAN, parity_even : BOOLEAN]

InitBranch ==
    /\ \E opcode \in BranchOpcodes, ret \in ReturnOpcodes, sp \in BranchSPs :
          /\ memory = new_memory(
                 Seg(Seg(Seg(<<118>>, BranchAt, <<opcode, BranchTarget % 256, BranchTarget \div 256, 118>>),
                         BranchTarget, <<ret, 118>>), BranchTarget + 2, <<>>), 0)
          /\ registers = [DefaultRegisters EXCEPT !.program_counter = BranchAt,
                                                  !.stack_pointer = sp]
    /\ flags \in AllFlags
    /\ interrupts_enabled = TRUE
    /\ shift_register = DefaultShiftRegister
    /\ buttons = 0
    /\ sound_handler = DefaultSoundHandler
    /\ played = <<>>
    /\ sounds = <<>>
    /\ ThreadsStart

SpecBranch == InitBranch /\ [][NextAlone]_vars

\* the 16-bit word stored at addr and addr + 1
WordAt(mem, addr) == MemGet(mem, addr) + 256 * MemGet(mem, (addr + 1) % 65536)

\* mem with the word stored at addr and addr + 1, both inside memory
WithWordAt(mem, addr, word) == MemSet(MemSet(mem, addr, word % 256), addr + 1, word \div 256)

-----------------------------------------------------------------------------
(* C18: a taken Call at address p pushes p + 3 and sets PC to its target; a *)
(* taken Return that follows it, the stack undisturbed in between, sets PC  *)
(* to p + 3 and restores SP to its value before the Call.  A Call or        *)
(* Return whose condition is false changes neither SP nor memory and        *)
(* continues at the next instruction.                                       *)

Executes(op) == emu_pc = "exec" /\ instruction'.op = op
Taken == evaluate(flags, instruction'.condition)
SP == registers.stack_pointer
PC == registers.program_counter

CallEffect ==
    Executes("Call") =>
        IF Taken
        THEN /\ emu_pc' # "panicked"
             /\ registers'.stack_pointer = (SP + 65536 - 2) % 65536
             /\ registers'.stack_pointer < 65535
             /\ memory' = WithWordAt(memory, registers'.stack_pointer, (PC + 3) % 65536)
             /\ registers'.program_counter = instruction'.addr
        ELSE /\ registers'.stack_pointer = SP
             /\ memory' = memory
             /\ registers'.program_counter = (PC + 3) % 65536

ReturnEffect ==
    Executes("ReturnFromSubroutine") =>
        IF Taken
        THEN /\ emu_pc' # "panicked"
             /\ registers'.stack_pointer = (SP + 2) % 65536
             /\ registers'.program_counter = WordAt(memory, SP)
             /\ memory' = memory
             \* straight after a taken Call fetched at old_pc
             /\ (instruction.op = "Call" /\ PC = instruction.addr)
                    => registers'.program_counter = (old_pc + 3) % 65536
        ELSE /\ registers'.stack_pointer = SP
             /\ memory' = memory
             /\ registers'.program_counter = (PC + 1) % 65536

C18_CallReturn == [][CallEffect /\ ReturnEffect]_vars

\* the same, of the calls and returns that do not abort
C18_CallReturnNoAbort == [][(emu_pc' # "panicked") => (CallEffect /\ ReturnEffect)]_vars

C18_Witness ==
    /\ instruction.op = "ReturnFromSubroutine"
    /\ old_pc = BranchTarget
    /\ registers.program_counter = BranchAt + 3
    /\ registers.stack_pointer = 9216
    /\ WordAt(memory, 9214) = BranchAt + 3


-----------------------------------------------------------------------------
(* C19: opcodes C3 and CB decode to Jump(Unconditional), CD, DD, ED and FD  *)
(* to Call(Unconditional), C9 and D9 to ReturnFromSubroutine(Unconditional),*)
(* and executing any of them transfers control whatever the five flags are. *)

AliasOp(opcode) ==
    CASE opcode \in {195, 203} -> "Jump"
      [] opcode \in {205, 221, 237, 253} -> "Call"
      [] opcode \in {201, 217} -> "ReturnFromSubroutine"
      [] OTHER -> "None"

\* where control goes when the branch at BranchAt is taken
Destination(op) == IF op = "ReturnFromSubroutine" THEN WordAt(memory, SP) ELSE BranchTarget

AliasEffect ==
    (emu_pc = "exec" /\ PC = BranchAt /\ AliasOp(MemGet(memory, BranchAt)) # "None") =>
        /\ instruction'.op = AliasOp(MemGet(memory, BranchAt))
        /\ instruction'.condition = "Unconditional"
        /\ instruction'.op # "ReturnFromSubroutine" => instruction'.addr = BranchTarget
        /\ Taken
        /\ emu_pc' # "panicked" => registers'.program_counter = Destination(instruction'.op)

C19_AliasesUnconditional == [][AliasEffect]_vars

C19_Witness ==
    /\ MemGet(memory, BranchAt) = 253
    /\ old_pc = BranchAt
    /\ instruction = [op |-> "Call", condition |-> "Unconditional", addr |-> BranchTarget]
    /\ flags = [carry |-> TRUE, auxiliary_carry |-> FALSE, sign_positive |-> FALSE,
                zero |-> TRUE, parity_even |-> FALSE]
    /\ registers.program_counter = BranchTarget
    /\ registers.stack_pointer = 9214

C19_WitnessReturn ==
    /\ MemGet(memory, BranchAt) = 217
    /\ old_pc = BranchAt
    /\ instruction = [op |-> "ReturnFromSubroutine", condition |-> "Unconditional"]
    /\ flags = [carry |-> FALSE, auxiliary_carry |-> TRUE, sign_positive |-> TRUE,
                zero |-> FALSE, parity_even |-> TRUE]
    /\ registers.program_counter = 0
    /\ registers.stack_pointer = 9218


-----------------------------------------------------------------------------
(* C20: opcode 0x76 decodes to Halt and to nothing else; every other opcode *)
(* in 0x40..0x7F decodes to Move, its destination the register of bits 5..3 *)
(* and its source the register of bits 2..0; so no Move has MemoryRef as    *)
(* both destination and source.                                             *)

RegisterOf(bits) ==
    CASE bits = 0 -> "B" [] bits = 1 -> "C" [] bits = 2 -> "D" [] bits = 3 -> "E"
      [] bits = 4 -> "H" [] bits = 5 -> "L" [] bits = 6 -> "MemoryRef" [] bits = 7 -> "A"

C20_MoveAndHalt ==
    /\ \A i \in MatchingArms(118) : Arms[i].body = "Halt"
    /\ last_op.name = "decode" =>
          /\ DecodedOpcode = 118 => instruction = [op |-> "Halt"]
          /\ (DecodedOpcode \in 64..127 /\ DecodedOpcode # 118) =>
                /\ ~last_op.panicked
                /\ instruction = [op |-> "Move",
                                  destination |-> RegisterOf((DecodedOpcode \div 8) % 8),
                                  source |-> RegisterOf(DecodedOpcode % 8)]
          /\ ~(/\ instruction.op = "Move"
               /\ instruction.destination = "MemoryRef"
               /\ instruction.source = "MemoryRef")

\* MOV M,A (0x77), the neighbour of 0x76, has been decoded
C20_Witness ==
    /\ last_op.name = "decode"
    /\ DecodedOpcode = 119
    /\ instruction = [op |-> "Move", destination |-> "MemoryRef", source |-> "A"]

C20_WitnessHalt ==
    /\ last_op.name = "decode"
    /\ DecodedOpcode = 118
    /\ old_pc = 65535
    /\ instruction.op = "Halt"


-----------------------------------------------------------------------------
(* The Flags functions applied on their own to every Flags value and every  *)
(* byte, and the program PUSH PSW ; XRA A ; POP PSW ; HLT (F5 AF F1 76) run *)
(* by the emulator loop from every Flags value.                             *)

FlagsAccumulators == {0, 170}
FlagsSPs == {9216, 1}

\* PUSH PSW ; XRA A ; POP PSW ; HLT
ProgramPsw == <<245, 175, 241, 118>>

InitFlags ==
    /\ \E a \in FlagsAccumulators, sp \in FlagsSPs, f \in AllFlags :
          /\ registers = [DefaultRegisters EXCEPT !.a = a, !.stack_pointer = sp]
          /\ flags = f
          /\ last_op = [name |-> "start", a |-> a, flags |-> f]
    /\ memory = new_memory(ProgramPsw, 0)
    /\ interrupts_enabled = TRUE
    /\ shift_register = DefaultShiftRegister
    /\ buttons = 0
    /\ sound_handler = DefaultSoundHandler
    /\ played = <<>>
    /\ sounds = <<>>
    /\ emu_pc \in {"flags", "slot"}
    /\ old_pc = 0
    /\ middle_scan = FALSE
    /\ timer = "early"
    /\ instruction = NoInstruction
    /\ dispatched = <<>>
    /\ video = ZeroMemory
    /\ HostStart

FlagsDone(name, byte) ==
    /\ last_op' = [name |-> name, byte |-> byte, before |-> flags]
    /\ emu_pc' = "flags_done"
    /\ UNCHANGED <<registers, memory, interrupts_enabled, shift_register, buttons,
                   sound_handler, played, sounds, host_vars, middle_scan, timer,
                   instruction, old_pc, dispatched, video>>

\* flags.set_byte(byte)
FlagsSetByte ==
    /\ emu_pc = "flags"
    /\ \E byte \in 0..255 :
          /\ flags' = set_byte(flags, byte)
          /\ FlagsDone("set_byte", byte)

\* flags.set_byte(flags.as_byte())
FlagsSetOwnByte ==
    /\ emu_pc = "flags"
    /\ flags' = set_byte(flags, as_byte(flags))
    /\ FlagsDone("set_own_byte", as_byte(flags))

\* flags.set_from_arithmetic(result)
FlagsSetFromArithmetic ==
    /\ emu_pc = "flags"
    /\ \E result \in 0..255 :
          /\ flags' = set_from_arithmetic(flags, result)
          /\ FlagsDone("set_from_arithmetic", result)

NextFlags == FlagsSetByte \/ FlagsSetOwnByte \/ FlagsSetFromArithmetic \/ NextAlone

SpecFlags == InitFlags /\ [][NextFlags]_vars

-----------------------------------------------------------------------------
(* C21: for every Flags value f, set_byte(as_byte(f)) restores the five     *)
(* flags of f; for every byte b, as_byte() after set_byte(b) is             *)
(* (b & 0xD5) | 0x02; and Push(FlagsA) followed by Pop(FlagsA) restores A   *)
(* and the five flags.                                                      *)

\* (b & 0xD5) | 0x02, bit by bit
PackedFrom(b) ==
    BitOf(b, 0) + 2 + 4 * BitOf(b, 2) + 16 * BitOf(b, 4) + 64 * BitOf(b, 6) + 128 * BitOf(b, 7)

PoppedFlagsA ==
    /\ last_op.name = "start"
    /\ instruction = [op |-> "Pop", pair |-> "FlagsA"]
    /\ emu_pc # "panicked"

C21_FlagsRoundTrip ==
    /\ last_op.name = "set_own_byte" => flags = last_op.before
    /\ last_op.name = "set_byte" => as_byte(flags) = PackedFrom(last_op.byte)
    /\ PoppedFlagsA => (registers.a = last_op.a /\ flags = last_op.flags)

C21_Witness ==
    /\ PoppedFlagsA
    /\ registers.a = 170
    /\ flags = [carry |-> TRUE, auxiliary_carry |-> FALSE, sign_positive |-> TRUE,
                zero |-> FALSE, parity_even |-> FALSE]

C21_WitnessByte ==
    /\ last_op.name = "set_byte"
    /\ last_op.byte = 255
    /\ as_byte(flags) = 215

C21_WitnessOwnByte ==
    /\ last_op.name = "set_own_byte"
    /\ last_op.byte = 131
    /\ flags = [carry |-> TRUE, auxiliary_carry |-> FALSE, sign_positive |-> TRUE,
                zero |-> FALSE, parity_even |-> FALSE]

-----------------------------------------------------------------------------
(* C22: the packed flag byte carries the hardware S flag: for every byte r, *)
(* after set_from_arithmetic(r) bit 7 of as_byte() equals bit 7 of r.       *)

C22_PackedSign ==
    last_op.name = "set_from_arithmetic" => BitOf(as_byte(flags), 7) = BitOf(last_op.byte, 7)

\* what the code packs: bit 7 is sign_positive, the inverse of bit 7 of r
C22_PackedSignPositive ==
    last_op.name = "set_from_arithmetic" =>
        BitOf(as_byte(flags), 7) = 1 - BitOf(last_op.byte, 7)

C22_Witness ==
    /\ last_op.name = "set_from_arithmetic"
    /\ last_op.byte = 128
    /\ ~flags.sign_positive
    /\ BitOf(as_byte(flags), 7) = 0


-----------------------------------------------------------------------------
(* Instruction::num_cycles applied to every decoded instruction with both   *)
(* values of condition_was_true.                                            *)

\* instruction.num_cycles(condition_was_true)
NumCycles ==
    /\ emu_pc = "decoded"
    /\ ~last_op.panicked
    /\ \E condition_was_true \in BOOLEAN :
          last_op' = [name |-> "num_cycles", condition_was_true |-> condition_was_true,
                      cycles |-> num_cycles(instruction, condition_was_true)]
    /\ emu_pc' = "cycles"
    /\ UNCHANGED <<cpu_vars, host_vars, middle_scan, timer, instruction, old_pc,
                   dispatched, video>>

SpecCycles == InitDecode /\ [][Decode \/ NumCycles]_vars

-----------------------------------------------------------------------------
(* C23: num_cycles returns the value of the opcode table for every decoded  *)
(* instruction; the branch-taken flag matters only for conditional Call (17 *)
(* taken, 11 not) and conditional Return (11 taken, 5 not); unconditional   *)
(* Call is 17 and unconditional Return 10 for both flag values; and every   *)
(* result lies in {4, 5, 7, 10, 11, 13, 17, 18}.                            *)

\* the cycles column of the opcode table, by opcode bits
TableCycles(opcode, taken) ==
    LET top == opcode \div 64
        mid == (opcode \div 8) % 8
        low == opcode % 8
    IN  IF opcode = 118 THEN 7
        ELSE IF top = 1 THEN (IF mid = 6 \/ low = 6 THEN 7 ELSE 5)
        ELSE IF top = 2 THEN (IF low = 6 THEN 7 ELSE 4)
        ELSE IF top = 0 THEN
            (IF low = 0 THEN 4
             ELSE IF low = 1 THEN 10
             ELSE IF low = 2 THEN (IF mid < 4 THEN 7 ELSE 13)
             ELSE IF low = 3 THEN 5
             ELSE IF low \in {4, 5} THEN (IF mid = 6 THEN 10 ELSE 5)
             ELSE IF low = 6 THEN (IF mid = 6 THEN 10 ELSE 7)
             ELSE 4)
        ELSE
            (IF low = 0 THEN (IF taken THEN 11 ELSE 5)
             ELSE IF low = 1 THEN
                 (IF mid % 2 = 0 THEN 11
                  ELSE IF mid \in {1, 3} THEN 10
                  ELSE 5)
             ELSE IF low = 2 THEN 10
             ELSE IF low = 3 THEN
                 (IF mid \in {0, 1, 2, 3} THEN 10
                  ELSE IF mid = 4 THEN 18
                  ELSE IF mid = 5 THEN 5
                  ELSE 4)
             ELSE IF low = 4 THEN (IF taken THEN 17 ELSE 11)
             ELSE IF low = 5 THEN (IF mid % 2 = 0 THEN 11 ELSE 17)
             ELSE IF low = 6 THEN 7
             ELSE 11)

CyclesComputed == last_op.name = "num_cycles"

C23_CyclesOfTableButCall ==
    (CyclesComputed /\ ~(DecodedOpcode \in {205, 221, 237, 253}
                         /\ ~last_op.condition_was_true)) =>
        /\ last_op.cycles = TableCycles(DecodedOpcode, last_op.condition_was_true)
        /\ last_op.cycles \in {4, 5, 7, 10, 11, 13, 17, 18}

-----------------------------------------------------------------------------
(* handle_arm applied on its own to one arm: a pattern of eight characters  *)
(* and its #[not(..)] exclusions.  The macro either aborts on an overflow   *)
(* (a build with overflow checks), reports an error, or rewrites the arm.   *)

PATTERN_BITS == 8

\* every pattern over three of the characters 0, 1, ?, x and y
PatternAlphabets == {{"0", "1", "?"}, {"0", "1", "x"}, {"?", "x", "y"}, {"0", "x", "y"}}
Patterns == UNION {[1..PATTERN_BITS -> alphabet] : alphabet \in PatternAlphabets}

\* no exclusion, or #[not("0111_0110")]
Exclusions == {<<>>, <<<<"0", "1", "1", "1", "_", "0", "1", "1", "0">>>>}

InitPattern ==
    /\ \E pat \in Patterns, nots \in Exclusions :
          last_op = [name |-> "arm", pat |-> pat, nots |-> nots]
    /\ registers = DefaultRegisters
    /\ memory = ZeroMemory
    /\ RestOfEmulator
    /\ emu_pc = "pattern"
    /\ old_pc = 0
    /\ middle_scan = FALSE
    /\ timer = "early"
    /\ instruction = NoInstruction
    /\ dispatched = <<>>
    /\ video = ZeroMemory
    /\ HostStart

\* handle_arm(arm, ..): get_captures_and_bytes, the #[not] loop, rewrite_pattern
\* and rewrite_body
HandleArmOutcome(pat, nots, checks) ==
    LET tb == from_str(pat).value
        caps == captures(tb)
        initial == possibilities(tb)
        not_tbs == {from_str(nots[i]).value : i \in 1..Len(nots)}
        removed == UNION {possibilities(n) : n \in not_tbs}
        aborted == [outcome |-> "panicked", bytes |-> {}, captures |-> NoCaptures]
        rejected == [outcome |-> "error", bytes |-> {}, captures |-> NoCaptures]
    IN  IF checks /\ possibilities_overflows(tb) THEN aborted
        ELSE IF ~caps.ok THEN rejected
        ELSE IF checks /\ \E n \in not_tbs : possibilities_overflows(n) THEN aborted
        ELSE IF ~(removed \subseteq initial) THEN rejected
        ELSE IF checks /\ rewrite_body_overflows(caps.value) THEN aborted
        ELSE [outcome |-> "ok",
              bytes |-> handle_arm([pats |-> <<pat>>, nots |-> nots]),
              captures |-> caps.value]

HandleArm ==
    /\ emu_pc = "pattern"
    /\ \E checks \in BOOLEAN : \E r \in {HandleArmOutcome(last_op.pat, last_op.nots, checks)} :
          last_op' = [name |-> "handle_arm", pat |-> last_op.pat, nots |-> last_op.nots,
                      outcome |-> r.outcome, bytes |-> r.bytes, captures |-> r.captures]
    /\ emu_pc' = "handled"
    /\ UNCHANGED <<cpu_vars, host_vars, middle_scan, timer, instruction, old_pc,
                   dispatched, video>>

SpecPattern == InitPattern /\ [][HandleArm]_vars

-----------------------------------------------------------------------------
(* C24: for every pattern, the bytes accepted by the generated arm are      *)
(* exactly the bytes that agree with the pattern at every 0 and 1 position  *)
(* (2^k bytes for k wildcard or capture positions, k in 0..8), minus the    *)
(* bytes of its exclusions.                                                 *)

\* the bit positions (0 is the last character) at which a pattern holds one of
\* the characters; underscores only group the digits
PositionsOf(pat, chars) ==
    LET digits == SelectSeq(pat, LAMBDA ch : ch # "_")
    IN  {bit \in 0..(PATTERN_BITS - 1) : digits[PATTERN_BITS - bit] \in chars}

\* the byte whose 1 bits are the positions
ByteOf(positions) ==
    LET weight[bit \in 0..PATTERN_BITS] ==
            IF bit = PATTERN_BITS THEN 0
            ELSE (IF bit \in positions THEN 2 ^ bit ELSE 0) + weight[bit + 1]
    IN  weight[0]

\* the bytes with every 0 position clear and every 1 position set
AgreeingBytes(pat) ==
    LET ones == PositionsOf(pat, {"1"})
        free == PositionsOf(pat, {"?", "x", "y"})
    IN  {ByteOf(ones \cup chosen) : chosen \in SUBSET free}

FreePositions(pat) == PositionsOf(pat, {"?", "x", "y"})

\* the positions of a pattern that hold the letter
LetterPositions(pat, letter) == PositionsOf(pat, {letter})

Contiguous(positions) ==
    \A a, b \in positions : \A c \in a..b : c \in positions

\* a well-formed arm: every letter in consecutive positions, every excluded
\* byte one of the pattern's
WellFormed(pat, nots) ==
    /\ \A letter \in {"x", "y"} : Contiguous(LetterPositions(pat, letter))
    /\ \A i \in 1..Len(nots) : AgreeingBytes(nots[i]) \subseteq AgreeingBytes(pat)

Handled == last_op.name = "handle_arm"

AcceptsAgreeing ==
    /\ last_op.outcome = "ok"
    /\ last_op.bytes = AgreeingBytes(last_op.pat)
                           \ UNION {AgreeingBytes(last_op.nots[i]) : i \in 1..Len(last_op.nots)}
    /\ Cardinality(AgreeingBytes(last_op.pat)) = 2 ^ Cardinality(FreePositions(last_op.pat))

C24_AcceptsAgreeing ==
    (Handled /\ WellFormed(last_op.pat, last_op.nots)) => AcceptsAgreeing

\* the same, of the patterns with at most seven free positions
C24_AcceptsAgreeingUpTo7 ==
    (/\ Handled
     /\ WellFormed(last_op.pat, last_op.nots)
     /\ Cardinality(FreePositions(last_op.pat)) <= 7) => AcceptsAgreeing

C24_Witness ==
    /\ Handled
    /\ last_op.pat = <<"?", "?", "?", "?", "?", "?", "?", "?">>
    /\ last_op.nots = <<>>
    /\ last_op.outcome = "ok"
    /\ last_op.bytes = {0}

C24_WitnessExcluded ==
    /\ Handled
    /\ last_op.pat = <<"0", "1", "x", "x", "x", "x", "x", "x">>
    /\ Len(last_op.nots) = 1
    /\ last_op.outcome = "ok"
    /\ Cardinality(last_op.bytes) = 63


-----------------------------------------------------------------------------
(* C25: every pattern in which one capture letter occupies non-contiguous   *)
(* bit positions, whatever the gap holds (0, 1, ? or another letter), is    *)
(* rejected with an error; no such pattern is accepted with a capture range *)
(* that differs from the positions the letter occupies.                     *)

PatternLetters == {"x", "y"}

Split(pat) == \E letter \in PatternLetters : ~Contiguous(LetterPositions(pat, letter))

\* some letter has another letter between two of its positions
SplitByLetter(pat) ==
    \E letter \in PatternLetters : \E a, b \in LetterPositions(pat, letter) :
        \E c \in a..b : c \in LetterPositions(pat, CHOOSE other \in PatternLetters : other # letter)

RangesAreLetterPositions ==
    \A letter \in DOMAIN last_op.captures :
        LetterPositions(last_op.pat, letter)
            = last_op.captures[letter].start .. last_op.captures[letter].end

\* the expansion fails: the macro reports an error, or aborts
Rejected == last_op.outcome \in {"error", "panicked"}

C25_SplitCaptureRejected ==
    Handled =>
        /\ Split(last_op.pat) => Rejected
        /\ last_op.outcome = "ok" => RangesAreLetterPositions

\* what the code does: it rejects the patterns split by another letter
C25_SplitByLetterRejected ==
    (Handled /\ SplitByLetter(last_op.pat)) => Rejected

\* "0000_x0xx" accepted, x bound to bits 0..2 although it occupies 0, 1 and 3
C25_Witness ==
    /\ Handled
    /\ last_op.pat = <<"0", "0", "0", "0", "x", "0", "x", "x">>
    /\ last_op.outcome = "ok"
    /\ last_op.captures["x"] = [start |-> 0, end |-> 2]

C25_WitnessRejected ==
    /\ Handled
    /\ last_op.pat = <<"0", "0", "0", "0", "x", "y", "x", "x">>
    /\ last_op.outcome = "error"

-----------------------------------------------------------------------------
(* visit_expr_match_mut applied to a whole match: the arms are handled in   *)
(* the order written, global_bytes remembers the first arm of every byte.   *)

\* the arms a match is made of: literals, one with an exclusion, an
\* or-pattern, a pattern with eight free positions
MatchArms == {
    [pats |-> <<<<"0", "1", "x", "x", "_", "x", "y", "y", "y">>>>,
     nots |-> <<<<"0", "1", "1", "1", "_", "0", "1", "1", "0">>>>],
    [pats |-> <<<<"0", "1", "x", "x", "_", "x", "y", "y", "y">>>>, nots |-> <<>>],
    [pats |-> <<<<"0", "1", "1", "1", "_", "0", "1", "1", "0">>>>, nots |-> <<>>],
    [pats |-> <<<<"0", "1", "1", "1", "_", "0", "?", "?", "?">>>>, nots |-> <<>>],
    [pats |-> <<<<"1", "0", "x", "x", "_", "x", "y", "y", "y">>>>, nots |-> <<>>],
    [pats |-> <<<<"1", "1", "0", "0", "_", "0", "0", "1", "1">>,
                <<"1", "1", "0", "0", "_", "1", "0", "1", "1">>>>, nots |-> <<>>],
    [pats |-> <<<<"?", "?", "?", "?", "_", "?", "?", "?", "?">>>>, nots |-> <<>>]}

MaxArms == 3

Matches == UNION {[1..n -> MatchArms] : n \in 2..MaxArms}

InitMatch ==
    /\ \E arms \in Matches, checks \in BOOLEAN :
          last_op = [name |-> "match", arms |-> arms, checks |-> checks, handled |-> 0,
                     global_bytes |-> <<>>, errors |-> {}, conflict_number |-> 1,
                     panicked |-> FALSE]
    /\ registers = DefaultRegisters
    /\ memory = ZeroMemory
    /\ RestOfEmulator
    /\ emu_pc = "match"
    /\ old_pc = 0
    /\ middle_scan = FALSE
    /\ timer = "early"
    /\ instruction = NoInstruction
    /\ dispatched = <<>>
    /\ video = ZeroMemory
    /\ HostStart

\* check_conflict: two errors for every byte of the arm that an earlier arm
\* holds, one at the span of that first arm and one at the span of this arm,
\* both carrying the byte and the conflict number
check_conflict(global_bytes, bytes, pat_span, conflict_number) ==
    {[byte |-> duplicate, first_span |-> global_bytes[duplicate], pat_span |-> pat_span,
      conflict_number |-> conflict_number] : duplicate \in bytes \cap DOMAIN global_bytes}

\* the shift `1 << count` of possibilities overflows in some pattern of the arm
arm_overflows(arm) ==
    \E i \in 1..Len(arm.pats) : possibilities_overflows(from_str(arm.pats[i]).value)

\* one turn of the loop over the arms: handle_arm on the next arm
VisitArm ==
    /\ emu_pc = "match"
    /\ ~last_op.panicked
    /\ last_op.handled < Len(last_op.arms)
    /\ LET index == last_op.handled + 1
           arm == last_op.arms[index]
       IN  IF last_op.checks /\ arm_overflows(arm)
           THEN last_op' = [last_op EXCEPT !.panicked = TRUE]
           ELSE \E bytes \in {handle_arm(arm)} :
                \E conflicts \in {check_conflict(last_op.global_bytes, bytes, index,
                                                 last_op.conflict_number)} :
                   last_op' = [last_op EXCEPT
                       !.handled = index,
                       !.errors = @ \cup conflicts,
                       !.conflict_number = IF conflicts # {} THEN @ + 1 ELSE @,
                       !.global_bytes =
                           [byte \in DOMAIN @ \cup bytes |->
                               IF byte \in DOMAIN @ THEN @[byte] ELSE index]]
    /\ UNCHANGED <<cpu_vars, host_vars, emu_pc, middle_scan, timer, instruction, old_pc,
                   dispatched, video>>

SpecMatch == InitMatch /\ [][VisitArm]_vars

-----------------------------------------------------------------------------
(* C26: when two arms of a match cover a common byte after exclusions, the  *)
(* matcher reports, for each such byte, an error that cites both the first  *)
(* arm covering the byte and the later arm; when the coverages of the arms  *)
(* are pairwise disjoint it reports no conflict.                            *)

\* the bytes an arm stands for: those agreeing with one of its patterns and
\* with none of its exclusions
Coverage(arm) ==
    UNION {AgreeingBytes(arm.pats[i]) : i \in 1..Len(arm.pats)}
        \ UNION {AgreeingBytes(arm.nots[i]) : i \in 1..Len(arm.nots)}

\* every arm has been handled: the expansion did not abort
MatchDone ==
    /\ last_op.name = "match"
    /\ last_op.handled = Len(last_op.arms)

\* (byte, first arm covering it, later arm) for every byte of an arm that an
\* earlier arm covers
Overlaps(arms) ==
    UNION {{<<byte, CHOOSE first \in 1..later :
                        /\ byte \in Coverage(arms[first])
                        /\ \A j \in 1..(first - 1) : byte \notin Coverage(arms[j]),
              later>> :
               byte \in Coverage(arms[later])
                           \cap UNION {Coverage(arms[e]) : e \in 1..(later - 1)}} :
           later \in 1..Len(arms)}

Cited == {<<e.byte, e.first_span, e.pat_span>> : e \in last_op.errors}

ConflictsReported == Cited = Overlaps(last_op.arms)

C26_ConflictsReported == MatchDone => ConflictsReported

\* the same, of the matches whose patterns have at most seven free positions
C26_ConflictsReportedUpTo7 ==
    (/\ MatchDone
     /\ \A i \in 1..Len(last_op.arms) : \A k \in 1..Len(last_op.arms[i].pats) :
           Cardinality(FreePositions(last_op.arms[i].pats[k])) <= 7) => ConflictsReported

\* a catch-all of eight ? ahead of HLT: no conflict is reported for 0x76
C26_Witness ==
    /\ MatchDone
    /\ Len(last_op.arms) = 2
    /\ last_op.arms[1].pats = <<<<"?", "?", "?", "?", "_", "?", "?", "?", "?">>>>
    /\ last_op.arms[2].pats = <<<<"0", "1", "1", "1", "_", "0", "1", "1", "0">>>>
    /\ last_op.errors = {}

\* MOV without its exclusion ahead of HLT: 0x76 is reported once, citing both
C26_WitnessConflict ==
    /\ MatchDone
    /\ Len(last_op.arms) = 2
    /\ last_op.arms[1].nots = <<>>
    /\ last_op.arms[1].pats = <<<<"0", "1", "x", "x", "_", "x", "y", "y", "y">>>>
    /\ last_op.arms[2].pats = <<<<"0", "1", "1", "1", "_", "0", "1", "1", "0">>>>
    /\ last_op.errors = {[byte |-> 118, first_span |-> 1, pat_span |-> 2,
                          conflict_number |-> 1]}

\* MOV with its exclusion ahead of HLT: disjoint, nothing is reported
C26_WitnessDisjoint ==
    /\ MatchDone
    /\ Len(last_op.arms) = 2
    /\ Len(last_op.arms[1].nots) = 1
    /\ last_op.arms[2].pats = <<<<"0", "1", "1", "1", "_", "0", "1", "1", "0">>>>
    /\ last_op.errors = {}
    /\ Overlaps(last_op.arms) = {}

-----------------------------------------------------------------------------
(* The expanded arm applied to an opcode: `PATTERN => { let x: u8 = ..; .. }` *)
(* is taken when the opcode is one of the arm's bytes, and its body then    *)
(* sees every capture name bound by the let of rewrite_body.                *)

\* x in the positions p..p+n-1 for every p and n, the other positions all 0 or
\* all 1; and the two captures of MOV
CapturePatterns ==
    {[i \in 1..PATTERN_BITS |->
         IF PATTERN_BITS - i \in p..(p + n - 1) THEN "x" ELSE other] :
       <<p, n, other>> \in {<<q, m, o>> \in (0..(PATTERN_BITS - 1)) \X (1..PATTERN_BITS) \X {"0", "1"} :
                               q + m <= PATTERN_BITS}}
        \cup {<<"0", "1", "x", "x", "x", "y", "y", "y">>}

InitCapture ==
    /\ \E pat \in CapturePatterns : last_op = [name |-> "arm", pat |-> pat, nots |-> <<>>]
    /\ registers = DefaultRegisters
    /\ memory = ZeroMemory
    /\ RestOfEmulator
    /\ emu_pc = "pattern"
    /\ old_pc = 0
    /\ middle_scan = FALSE
    /\ timer = "early"
    /\ instruction = NoInstruction
    /\ dispatched = <<>>
    /\ video = ZeroMemory
    /\ HostStart

\* the arm meets an opcode: taken when rewrite_pattern listed the byte, the
\* body then runs under the bindings of rewrite_body
TakeArm ==
    /\ emu_pc = "handled"
    /\ last_op.name = "handle_arm"
    /\ last_op.outcome = "ok"
    /\ \E byte \in 0..255 :
          last_op' = [name |-> "arm_body", pat |-> last_op.pat, byte |-> byte,
                      taken |-> byte \in last_op.bytes,
                      bindings |-> IF byte \in last_op.bytes
                                   THEN [letter \in DOMAIN last_op.captures |->
                                            rewrite_body(last_op.captures, letter, byte)]
                                   ELSE NoCaptures]
    /\ emu_pc' = "body"
    /\ UNCHANGED <<cpu_vars, host_vars, middle_scan, timer, instruction, old_pc,
                   dispatched, video>>

SpecCapture == InitCapture /\ [][HandleArm \/ TakeArm]_vars

-----------------------------------------------------------------------------
(* C27: for a named capture occupying the bit positions p..p+n-1, the arm   *)
(* body sees the name bound to (opcode >> p) & (2^n - 1) for every opcode   *)
(* matching the pattern, for every width n in 1..8.                         *)

InBody == last_op.name = "arm_body"

\* (opcode >> p) & (2^n - 1) for the positions p..p+n-1 of the letter
CapturedValue(pat, letter, opcode) ==
    LET positions == LetterPositions(pat, letter)
        p == CHOOSE low \in positions : \A other \in positions : low <= other
        n == Cardinality(positions)
    IN  (opcode \div (2 ^ p)) % (2 ^ n)

LettersOf(pat) == {letter \in PatternLetters : LetterPositions(pat, letter) # {}}

BoundAsCaptured ==
    /\ last_op.taken
    /\ DOMAIN last_op.bindings = LettersOf(last_op.pat)
    /\ \A letter \in LettersOf(last_op.pat) :
          last_op.bindings[letter] = CapturedValue(last_op.pat, letter, last_op.byte)

C27_CaptureValue ==
    /\ Handled => last_op.outcome = "ok"
    /\ (InBody /\ last_op.byte \in AgreeingBytes(last_op.pat)) => BoundAsCaptured

\* the same, of the captures at most seven bits wide
C27_CaptureValueUpTo7 ==
    /\ (Handled /\ Cardinality(FreePositions(last_op.pat)) <= 7) => last_op.outcome = "ok"
    /\ (/\ InBody
        /\ last_op.byte \in AgreeingBytes(last_op.pat)
        /\ Cardinality(FreePositions(last_op.pat)) <= 7) => BoundAsCaptured

\* "xxxx_xxxx" meets 0x55: the arm is not taken, nothing is bound
C27_Witness ==
    /\ InBody
    /\ last_op.pat = <<"x", "x", "x", "x", "x", "x", "x", "x">>
    /\ last_op.byte = 85
    /\ ~last_op.taken

\* "1xxx_xxx1" meets 0xAB: x is 0x15
C27_WitnessSeven ==
    /\ InBody
    /\ last_op.pat = <<"1", "x", "x", "x", "x", "x", "x", "1">>
    /\ last_op.byte = 171
    /\ last_op.taken
    /\ last_op.bindings["x"] = 21

-----------------------------------------------------------------------------
(* One arithmetic instruction executed from every value of its operand:     *)
(* SUI, SBI and CPI with an immediate, INR and DCR of A, of B and of the    *)
(* byte HL points at, from flags all clear and all set.                     *)

\* SUI d8, SBI d8, CPI d8
AluImmediates == {214, 222, 254}
\* INR B, DCR B, INR M, DCR M, INR A, DCR A
AluIncrements == {4, 5, 52, 53, 60, 61}
AluValues == {0, 1, 2, 15, 16, 17, 31, 85, 127, 128, 129, 170, 240, 255}
AluFlags == {f \in AllFlags : \A name \in DOMAIN f : f[name] = f.carry}
AluHl == VIDEO_START

\* the register an INR or DCR opcode names
AluRegister(opcode) == Register_from_bits(opcode \div 8)

InitAlu ==
    /\ \E operand \in 0..255 :
          \/ \E opcode \in AluImmediates, value \in AluValues :
                /\ memory = Place(Place(ZeroMemory, 0, opcode), 1, value)
                /\ registers = [DefaultRegisters EXCEPT !.a = operand]
          \/ \E opcode \in AluIncrements :
                /\ memory = Place(Place(ZeroMemory, 0, opcode), AluHl,
                                  IF AluRegister(opcode) = "MemoryRef" THEN operand ELSE 0)
                /\ registers = [DefaultRegisters EXCEPT
                                   !.a = IF AluRegister(opcode) = "A" THEN operand ELSE 0,
                                   !.b = IF AluRegister(opcode) = "B" THEN operand ELSE 0,
                                   !.h = AluHl \div 256,
                                   !.l = AluHl % 256]
    /\ flags \in AluFlags
    /\ interrupts_enabled = TRUE
    /\ shift_register = DefaultShiftRegister
    /\ buttons = 0
    /\ sound_handler = DefaultSoundHandler
    /\ played = <<>>
    /\ sounds = <<>>
    /\ emu_pc = "exec"
    /\ old_pc = 0
    /\ LoopLocals
    /\ HostStart

SpecAlu == InitAlu /\ [][EmuExecute]_vars

\* the instruction about to be executed, and its immediate
AluOpcode == MemGet(memory, 0)
AluValue == MemGet(memory, 1)
AluExecutes(opcodes) == emu_pc = "exec" /\ PC = 0 /\ AluOpcode \in opcodes

-----------------------------------------------------------------------------
(* C28: Compare(A, v) leaves A unchanged and sets all five flags to exactly *)
(* the values Subtract(A, v) would set, for every A and v.                  *)

\* what SUI value would leave, from the same state
SubtractOf(value) == do_operation(Cpu, "Subtract", "A", value)

CompareAsSubtract ==
    AluExecutes({254}) =>
        /\ registers'.a = registers.a
        /\ flags' = SubtractOf(AluValue).flags

C28_CompareAsSubtract == [][CompareAsSubtract]_vars

\* the same, of the flags other than auxiliary_carry
CompareAsSubtractButAux ==
    AluExecutes({254}) =>
        /\ registers'.a = registers.a
        /\ [flags' EXCEPT !.auxiliary_carry = FALSE]
               = [SubtractOf(AluValue).flags EXCEPT !.auxiliary_carry = FALSE]

C28_CompareAsSubtractButAux == [][CompareAsSubtractButAux]_vars

\* CPI 0x11 with A = 0x10: auxiliary_carry is set, SUI 0x11 would clear it
C28_Witness ==
    /\ emu_pc = "slot"
    /\ MemGet(memory, 0) = 254
    /\ MemGet(memory, 1) = 17
    /\ registers.a = 16
    /\ flags.auxiliary_carry
    /\ flags.carry

-----------------------------------------------------------------------------
(* C29: Subtract sets reg to (reg - value) mod 256, carry to reg < value    *)
(* and auxiliary_carry to (reg >> 4) < (value >> 4); SubtractWithBorrow     *)
(* with incoming carry b sets reg to (reg - value - b) mod 256, carry to    *)
(* reg < value + b and auxiliary_carry to (reg >> 4) < (value >> 4) + b;    *)
(* both set sign, zero and parity from the result.                          *)

OnesOf(byte) == Cardinality({bit \in 0..7 : (byte \div (2 ^ bit)) % 2 = 1})

\* sign, zero and parity of a result
FromResult(f, result) ==
    /\ f.sign_positive = (result < 128)
    /\ f.zero = (result = 0)
    /\ f.parity_even = (OnesOf(result) % 2 = 0)

\* reg - value - b on reg, with the borrows of the byte and of the high nibbles
Subtracted(reg, value, b) ==
    [value |-> (reg + 512 - value - b) % 256,
     carry |-> reg < value + b,
     auxiliary_carry |-> (reg \div 16) < (value \div 16) + b]

SubtractEffect ==
    /\ AluExecutes({214}) =>
          LET expected == Subtracted(registers.a, AluValue, 0)
          IN  /\ registers'.a = expected.value
              /\ flags'.carry = expected.carry
              /\ flags'.auxiliary_carry = expected.auxiliary_carry
              /\ FromResult(flags', expected.value)
    /\ AluExecutes({222}) =>
          LET expected == Subtracted(registers.a, AluValue, B2N(flags.carry))
          IN  /\ registers'.a = expected.value
              /\ flags'.carry = expected.carry
              /\ flags'.auxiliary_carry = expected.auxiliary_carry
              /\ FromResult(flags', expected.value)

C29_SubtractAndBorrow == [][SubtractEffect]_vars

\* SBI 0xFF with A = 0x00 and carry set: A = 0x00 with carry, auxiliary_carry, zero
C29_Witness ==
    /\ emu_pc = "slot"
    /\ MemGet(memory, 0) = 222
    /\ MemGet(memory, 1) = 255
    /\ registers.a = 0
    /\ flags = [carry |-> TRUE, auxiliary_carry |-> TRUE, sign_positive |-> TRUE,
                zero |-> TRUE, parity_even |-> TRUE]

\* SUI 0x11 with A = 0x10: A = 0xFF with carry, auxiliary_carry clear
C29_WitnessSubtract ==
    /\ emu_pc = "slot"
    /\ MemGet(memory, 0) = 214
    /\ MemGet(memory, 1) = 17
    /\ registers.a = 255
    /\ flags = [carry |-> TRUE, auxiliary_carry |-> FALSE, sign_positive |-> FALSE,
                zero |-> FALSE, parity_even |-> TRUE]

-----------------------------------------------------------------------------
(* C30: Increment(r) and Decrement(r) produce exactly the register (or      *)
(* memory[HL]) value and the five flags that Add of 1 and Subtract of 1     *)
(* produce on that operand, including carry: incrementing 0xFF gives 0x00   *)
(* with zero, carry, auxiliary_carry, parity_even and sign_positive all     *)
(* set, and decrementing 0x00 sets carry.                                   *)

\* the operand of the INR or DCR at address 0, in a register or at memory[HL]
OperandIn(regs, mem) ==
    LET reg == AluRegister(AluOpcode)
    IN  IF reg = "A" THEN regs.a
        ELSE IF reg = "B" THEN regs.b
        ELSE MemGet(mem, AluHl)

\* reg + value on reg, with the carries out of bit 7 and out of bit 3
Added(reg, value) ==
    [value |-> (reg + value) % 256,
     carry |-> reg + value > 255,
     auxiliary_carry |-> (reg % 16) + (value % 16) > 15]

\* nothing but the operand and the program counter changes
OnlyOperand ==
    /\ [registers' EXCEPT !.a = 0, !.b = 0, !.program_counter = 0]
           = [registers EXCEPT !.a = 0, !.b = 0, !.program_counter = 0]
    /\ AluRegister(AluOpcode) # "A" => registers'.a = registers.a
    /\ AluRegister(AluOpcode) # "B" => registers'.b = registers.b
    /\ \A addr \in (DOMAIN memory \cup DOMAIN memory') \ {AluHl} :
          MemGet(memory', addr) = MemGet(memory, addr)
    /\ AluRegister(AluOpcode) # "MemoryRef" => MemGet(memory', AluHl) = MemGet(memory, AluHl)

IncrementEffect ==
    AluExecutes(AluIncrements) =>
        LET operand == OperandIn(registers, memory)
            expected == IF AluOpcode % 2 = 0 THEN Added(operand, 1)
                        ELSE Subtracted(operand, 1, 0)
        IN  /\ OperandIn(registers', memory') = expected.value
            /\ flags'.carry = expected.carry
            /\ flags'.auxiliary_carry = expected.auxiliary_carry
            /\ FromResult(flags', expected.value)
            /\ OnlyOperand
            /\ (AluOpcode % 2 = 0 /\ operand = 255) =>
                   /\ OperandIn(registers', memory') = 0
                   /\ flags' = [carry |-> TRUE, auxiliary_carry |-> TRUE,
                                sign_positive |-> TRUE, zero |-> TRUE, parity_even |-> TRUE]
            /\ (AluOpcode % 2 = 1 /\ operand = 0) => flags'.carry

C30_IncrementAsAdd == [][IncrementEffect]_vars

\* INR B with B = 0xFF and every flag clear: B = 0x00, every flag set
C30_Witness ==
    /\ emu_pc = "slot"
    /\ MemGet(memory, 0) = 4
    /\ old_pc = 0
    /\ registers.program_counter = 1
    /\ registers.b = 0
    /\ flags = [carry |-> TRUE, auxiliary_carry |-> TRUE, sign_positive |-> TRUE,
                zero |-> TRUE, parity_even |-> TRUE]

\* DCR M with memory[HL] = 0x00: memory[HL] = 0xFF with carry
C30_WitnessDecrement ==
    /\ emu_pc = "slot"
    /\ MemGet(memory, 0) = 53
    /\ MemGet(memory, AluHl) = 255
    /\ flags.carry
    /\ ~flags.zero

-----------------------------------------------------------------------------
(* One logical instruction executed on its own: ANI, ORI and XRI from every *)
(* A with flags all clear or all set, ANA B, XRA B and ORA B from every     *)
(* flag state.                                                              *)

\* ANI d8, XRI d8, ORI d8
LogicImmediates == {230, 238, 246}
\* ANA B, XRA B, ORA B
LogicRegisters == {160, 168, 176}

InitLogic ==
    /\ \/ \E opcode \in LogicImmediates, a \in 0..255, value \in AluValues :
             /\ memory = Place(Place(ZeroMemory, 0, opcode), 1, value)
             /\ registers = [DefaultRegisters EXCEPT !.a = a]
             /\ flags \in AluFlags
       \/ \E opcode \in LogicRegisters, a \in AluValues, value \in AluValues :
             /\ memory = Place(ZeroMemory, 0, opcode)
             /\ registers = [DefaultRegisters EXCEPT !.a = a, !.b = value]
             /\ flags \in AllFlags
    /\ interrupts_enabled = TRUE
    /\ shift_register = DefaultShiftRegister
    /\ buttons = 0
    /\ sound_handler = DefaultSoundHandler
    /\ played = <<>>
    /\ sounds = <<>>
    /\ emu_pc = "exec"
    /\ old_pc = 0
    /\ LoopLocals
    /\ HostStart

SpecLogic == InitLogic /\ [][EmuExecute]_vars

-----------------------------------------------------------------------------
(* C31: And, Or and Xor, in the register and the immediate form, store the  *)
(* bitwise result in A, always clear both carry and auxiliary_carry, and    *)
(* set sign_positive, zero and parity_even from the result, for every A,    *)
(* operand and prior flag state.                                            *)

\* the operand of the logical instruction at address 0
LogicOperand == IF AluOpcode \in LogicImmediates THEN AluValue ELSE registers.b

\* bit by bit: the byte whose bits are those the operation leaves set
Bitwise(opcode, a, value) ==
    LET set(bit) == IF opcode \in {230, 160} THEN Bit(a, bit) = 1 /\ Bit(value, bit) = 1
                    ELSE IF opcode \in {246, 176} THEN Bit(a, bit) = 1 \/ Bit(value, bit) = 1
                    ELSE Bit(a, bit) # Bit(value, bit)
    IN  ByteOf({bit \in 0..7 : set(bit)})

LogicEffect ==
    AluExecutes(LogicImmediates \cup LogicRegisters) =>
        LET result == Bitwise(AluOpcode, registers.a, LogicOperand)
        IN  /\ registers'.a = result
            /\ ~flags'.carry
            /\ ~flags'.auxiliary_carry
            /\ FromResult(flags', result)

C31_LogicClearsCarries == [][LogicEffect]_vars

\* ANA B with A = 0xAA, B = 0x0F and every flag set: A = 0x0A, both carries clear
C31_Witness ==
    /\ emu_pc = "slot"
    /\ MemGet(memory, 0) = 160
    /\ registers.b = 15
    /\ registers.a = 10
    /\ flags = [carry |-> FALSE, auxiliary_carry |-> FALSE, sign_positive |-> TRUE,
                zero |-> FALSE, parity_even |-> TRUE]

\* ORI 0x80 with A = 0x01: A = 0x81
C31_WitnessImmediate ==
    /\ emu_pc = "slot"
    /\ MemGet(memory, 0) = 246
    /\ MemGet(memory, 1) = 128
    /\ registers.a = 129
    /\ ~flags.sign_positive
    /\ ~flags.carry

-----------------------------------------------------------------------------
(* DAA (27) executed on its own from every A and every flag state.          *)

InitDaa ==
    /\ \E a \in 0..255 :
          /\ memory = Place(ZeroMemory, 0, 39)
          /\ registers = [DefaultRegisters EXCEPT !.a = a]
    /\ flags \in AllFlags
    /\ interrupts_enabled = TRUE
    /\ shift_register = DefaultShiftRegister
    /\ buttons = 0
    /\ sound_handler = DefaultSoundHandler
    /\ played = <<>>
    /\ sounds = <<>>
    /\ emu_pc = "exec"
    /\ old_pc = 0
    /\ LoopLocals
    /\ HostStart

SpecDaa == InitDaa /\ [][EmuExecute]_vars

-----------------------------------------------------------------------------
(* C32: DecimalAdjustAccumulator computes, from A's nibbles (low, high) and *)
(* the incoming flags: if low > 9 or auxiliary_carry then low += 6,         *)
(* auxiliary_carry := low > 15 and high += low >> 4; then if high > 9 or    *)
(* carry then high += 6 and carry := high > 15; A := ((high << 4) |         *)
(* (low & 15)) mod 256 with sign, zero and parity set from A.  No           *)
(* intermediate value overflows 8 bits for any A and flags, and a flag      *)
(* whose nibble condition is false keeps its incoming value.                *)

\* the nibbles after each of the two corrections
Adjusted(a, f) ==
    LET low_corrected == (a % 16) > 9 \/ f.auxiliary_carry
        low == (a % 16) + (IF low_corrected THEN 6 ELSE 0)
        carried == (a \div 16) + (IF low_corrected THEN low \div 16 ELSE 0)
        high_corrected == carried > 9 \/ f.carry
        high == carried + (IF high_corrected THEN 6 ELSE 0)
    IN  [low |-> low, high |-> high,
         low_corrected |-> low_corrected, high_corrected |-> high_corrected]

DaaEffect ==
    AluExecutes({39}) =>
        LET n == Adjusted(registers.a, flags)
            result == ((n.high * 16) % 256) + (n.low % 16)
        IN  /\ emu_pc' # "panicked"
            /\ n.low < 256 /\ n.high < 256
            /\ registers'.a = result
            /\ flags'.auxiliary_carry = IF n.low_corrected THEN n.low > 15
                                        ELSE flags.auxiliary_carry
            /\ flags'.carry = IF n.high_corrected THEN n.high > 15 ELSE flags.carry
            /\ FromResult(flags', result)

C32_DecimalAdjust == [][DaaEffect]_vars

\* DAA of 0x9B with both carries clear: A = 0x01, both carries set
C32_Witness ==
    /\ emu_pc = "slot"
    /\ MemGet(memory, 0) = 39
    /\ registers.program_counter = 1
    /\ registers.a = 1
    /\ flags = [carry |-> TRUE, auxiliary_carry |-> TRUE, sign_positive |-> TRUE,
                zero |-> FALSE, parity_even |-> FALSE]

\* DAA of 0x25 with carry set and auxiliary_carry clear: A = 0x85, carry cleared
C32_WitnessCarryIn ==
    /\ emu_pc = "slot"
    /\ MemGet(memory, 0) = 39
    /\ registers.program_counter = 1
    /\ registers.a = 133
    /\ ~flags.carry
    /\ ~flags.auxiliary_carry

-----------------------------------------------------------------------------
(* Every opcode executed on its own from every flag state with interrupts   *)
(* enabled or not, every opcode executed at the top of the address space,   *)
(* and an interrupt dispatched from every flag state.                       *)

FrameAt == 256
FramePCs == {65533, 65534, 65535}
\* the bytes after the opcode: the address 0x2400, or the port 0
FrameOperand == <<0, 36>>
FrameRegisters == [a |-> 170, b |-> 32, c |-> 1, d |-> 33, e |-> 2, h |-> 36, l |-> 16,
                   stack_pointer |-> 9216, program_counter |-> FrameAt]

FrameMemory(pc, opcode) ==
    Place(Place(Place(ZeroMemory, pc, opcode), pc + 1, FrameOperand[1]),
          pc + 2, FrameOperand[2])

InitFrame ==
    /\ \/ /\ \E opcode \in 0..255 : memory = FrameMemory(FrameAt, opcode)
          /\ registers = FrameRegisters
          /\ flags \in AllFlags
          /\ interrupts_enabled \in BOOLEAN
          /\ emu_pc = "exec"
          /\ middle_scan = FALSE
       \/ /\ \E opcode \in 0..255, pc \in FramePCs :
                /\ memory = FrameMemory(pc, opcode)
                /\ registers = [FrameRegisters EXCEPT !.program_counter = pc]
          /\ flags \in AluFlags
          /\ interrupts_enabled = TRUE
          /\ emu_pc = "exec"
          /\ middle_scan = FALSE
       \/ /\ memory = FrameMemory(FrameAt, 0)
          /\ registers = FrameRegisters
          /\ flags \in AllFlags
          /\ interrupts_enabled = TRUE
          /\ emu_pc = "dispatch"
          /\ middle_scan \in BOOLEAN
    /\ shift_register = DefaultShiftRegister
    /\ buttons = 0
    /\ sound_handler = DefaultSoundHandler
    /\ played = <<>>
    /\ sounds = <<>>
    /\ old_pc = 0
    /\ timer = "late"
    /\ instruction = NoInstruction
    /\ dispatched = <<>>
    /\ video = ZeroMemory
    /\ last_op = [name |-> "none"]
    /\ HostStart

SpecFrame == InitFrame /\ [][EmuExecute \/ EmuDispatch]_vars

-----------------------------------------------------------------------------
(* C33: executing Nop, Invalid, Move, LoadImmediate, LoadLargeImmediate,    *)
(* StoreAccumulator, LoadAccumulator, DirectAddress, IncrementPair,         *)
(* DecrementPair, ExchangeRegisters, ExchangeStack, LoadSpFromHl,           *)
(* LoadProgramCounter, ComplementAccumulator, Push, Pop of BC/DE/HL, Jump,  *)
(* Call, ReturnFromSubroutine, Restart, EnableInterrupts,                   *)
(* DisableInterrupts, In, Out or Halt, or dispatching an interrupt, leaves  *)
(* all five flags unchanged; RotateAccumulator, ComplementCarry, SetCarry   *)
(* and AddToHl change no flag other than carry.                             *)

KeepFlags ==
    {"Nop", "Invalid", "Move", "LoadImmediate", "LoadLargeImmediate", "StoreAccumulator",
     "LoadAccumulator", "DirectAddress", "IncrementPair", "DecrementPair",
     "ExchangeRegisters", "ExchangeStack", "LoadSpFromHl", "LoadProgramCounter",
     "ComplementAccumulator", "Push", "Jump", "Call", "ReturnFromSubroutine", "Restart",
     "EnableInterrupts", "DisableInterrupts", "In", "Out", "Halt"}

KeepFlagsButCarry == {"RotateAccumulator", "ComplementCarry", "SetCarry", "AddToHl"}

FlagsFrame ==
    /\ (emu_pc = "exec" /\ instruction'.op \in KeepFlags) => flags' = flags
    /\ (emu_pc = "exec" /\ instruction'.op = "Pop" /\ instruction'.pair # "FlagsA") =>
           flags' = flags
    /\ (emu_pc = "exec" /\ instruction'.op \in KeepFlagsButCarry) =>
           [flags' EXCEPT !.carry = FALSE] = [flags EXCEPT !.carry = FALSE]
    /\ emu_pc = "dispatch" => flags' = flags

C33_FlagsFrame == [][FlagsFrame]_vars

\* STC (37) executed with zero, parity_even and sign_positive set: only carry
\* has changed
C33_Witness ==
    /\ emu_pc = "slot"
    /\ instruction.op = "SetCarry"
    /\ flags = [carry |-> TRUE, auxiliary_carry |-> FALSE, sign_positive |-> TRUE,
                zero |-> TRUE, parity_even |-> TRUE]

\* an interrupt dispatched with every flag set
C33_WitnessDispatch ==
    /\ emu_pc = "recv"
    /\ dispatched = <<2>>
    /\ flags = [carry |-> TRUE, auxiliary_carry |-> TRUE, sign_positive |-> TRUE,
                zero |-> TRUE, parity_even |-> TRUE]

\* POP B executed with every flag set
C33_WitnessPop ==
    /\ emu_pc = "slot"
    /\ instruction = [op |-> "Pop", pair |-> "Bc"]
    /\ flags = [carry |-> TRUE, auxiliary_carry |-> TRUE, sign_positive |-> TRUE,
                zero |-> TRUE, parity_even |-> TRUE]

-----------------------------------------------------------------------------
(* C34: after execute_one of any instruction other than a taken Jump, Call  *)
(* or Return, a Restart or LoadProgramCounter, PC equals (PC before +       *)
(* instruction length) mod 2^16, so PC addresses the opcode of the next     *)
(* instruction to decode; this holds also when the instruction ends at      *)
(* address 0xFFFF and PC wraps to 0.                                        *)

\* the instruction sets PC itself
SetsPC(i) ==
    \/ i.op \in {"Restart", "LoadProgramCounter"}
    \/ i.op \in {"Jump", "Call", "ReturnFromSubroutine"} /\ evaluate(flags, i.condition)

\* execute_one returns: the step ends neither in an abort of the fetch nor in
\* one of the instruction
Returns == emu_pc = "exec" /\ emu_pc' # "panicked"

PCAdvances ==
    (Returns /\ ~SetsPC(instruction')) =>
        registers'.program_counter = (PC + TableLength(instruction'.op)) % 65536

C34_PCAdvances == [][PCAdvances]_vars

\* MVI B (06) at 0xFFFE, ending at 0xFFFF: PC has wrapped to 0
C34_Witness ==
    /\ emu_pc = "slot"
    /\ old_pc = 65534
    /\ instruction.op = "LoadImmediate"
    /\ registers.program_counter = 0

\* JNZ at 0x0100 with zero set, not taken: PC = 0x0103
C34_WitnessNotTaken ==
    /\ emu_pc = "slot"
    /\ old_pc = FrameAt
    /\ instruction.op = "Jump"
    /\ instruction.condition = "NonZero"
    /\ flags.zero
    /\ registers.program_counter = FrameAt + 3

-----------------------------------------------------------------------------
(* C35: executing the Restart(n) instruction pushes the address of the      *)
(* following instruction, sets PC to 8 * n, and changes nothing else:       *)
(* interrupts_enabled, the flags and every register other than SP and PC    *)
(* keep their values.                                                       *)

\* n of the RST opcode 11nnn111 at PC
RestartNumber == (MemGet(memory, PC) \div 8) % 8

RestartPushes ==
    /\ registers'.stack_pointer = (SP + 65536 - 2) % 65536
    /\ memory' = WithWordAt(memory, registers'.stack_pointer, (PC + 1) % 65536)
    /\ registers'.program_counter = 8 * RestartNumber
    /\ [registers' EXCEPT !.stack_pointer = 0, !.program_counter = 0]
           = [registers EXCEPT !.stack_pointer = 0, !.program_counter = 0]
    /\ flags' = flags
    /\ <<shift_register', buttons', sound_handler'>> = <<shift_register, buttons, sound_handler>>

RestartEffect ==
    (Returns /\ instruction'.op = "Restart") =>
        /\ RestartPushes
        /\ interrupts_enabled' = interrupts_enabled

C35_RestartFrame == [][RestartEffect]_vars

\* the same, but for interrupts_enabled
RestartEffectButInterrupts ==
    (Returns /\ instruction'.op = "Restart") => RestartPushes

C35_RestartFrameButInterrupts == [][RestartEffectButInterrupts]_vars

\* RST 1 (CF) executed at 0xFFFD with interrupts enabled: they are disabled now
C35_Witness ==
    /\ emu_pc = "slot"
    /\ old_pc = 65533
    /\ instruction = [op |-> "Restart", routine_number |-> 1]
    /\ registers.program_counter = 8
    /\ registers.stack_pointer = 9214
    /\ WordAt(memory, 9214) = 65534
    /\ ~interrupts_enabled

-----------------------------------------------------------------------------
(* Emulator::execute on its own, the host idle, with the clock read as the  *)
(* code reads it:                                                           *)
(* after HLT with interrupts enabled the loop sleeps for                    *)
(* (last_interrupt + 1/120 s) - now, so it wakes at that instant or later,  *)
(* and the interrupt slot dispatches only when last_interrupt.elapsed() is  *)
(* greater than 1/120 s.  timer = "due" is the reading equal to 1/120 s.    *)

\* execute.rs 36-39 and 11: the sleep ends at the deadline and the clock has
\* not advanced when the slot reads it
EmuSleepExact ==
    /\ ProcessAlive
    /\ emu_pc = "sleep"
    /\ timer = "early"
    /\ Len(dispatched) < MaxDispatch
    /\ timer' = "due"
    /\ emu_pc' = "slot"
    /\ UNCHANGED <<cpu_vars, host_vars, middle_scan, instruction, old_pc, dispatched,
                   video, last_op>>

InitHalt ==
    /\ \E program \in Programs : NewEmulator(program, 0)
    /\ ThreadsStart

NextHalt ==
    \/ Tick
    \/ EmuSlot
    \/ EmuLock
    \/ EmuCopyFirst
    \/ EmuCopySecond
    \/ EmuUnlock
    \/ EmuDispatch
    \/ EmuRecv
    \/ EmuExecute
    \/ EmuSleep
    \/ EmuSleepExact

SpecHalt == InitHalt /\ [][NextHalt]_vars

-----------------------------------------------------------------------------
(* C36: after a Halt executed with interrupts enabled, the CPU stays halted *)
(* until it is interrupted: the main loop executes no further instruction   *)
(* (in particular not the instruction that follows the HLT in memory)       *)
(* before it has dispatched the next interrupt.                             *)

\* the loop is about to execute an instruction and the last one was a HLT
AfterHalt == emu_pc = "exec" /\ instruction.op = "Halt"

\* an interrupt has been dispatched since: interrupts are disabled and PC is at
\* the handler of the last interrupt
Interrupted ==
    /\ dispatched # <<>>
    /\ ~interrupts_enabled
    /\ registers.program_counter = 8 * dispatched[Len(dispatched)]

C36_HaltedUntilInterrupt == AfterHalt => Interrupted

\* the same, when the slot has read the clock past the deadline
C36_HaltedUntilInterruptPastDeadline == (AfterHalt /\ timer # "due") => Interrupted

\* the loop is about to execute the JMP after the HLT at 0x0029, no interrupt
\* dispatched since
C36_Witness ==
    /\ AfterHalt
    /\ old_pc = 41
    /\ registers.program_counter = 42
    /\ interrupts_enabled
    /\ timer = "due"

\* the loop is about to execute the handler at 0x0010 after the HLT
C36_WitnessInterrupted ==
    /\ AfterHalt
    /\ old_pc = 41
    /\ registers.program_counter = 16
    /\ ~interrupts_enabled

-----------------------------------------------------------------------------
(* C37: interrupts never nest without the program's consent: between any    *)
(* two consecutive interrupt dispatches by the main loop an                 *)
(* EnableInterrupts instruction has been executed, since dispatch clears    *)
(* interrupts_enabled and no operation other than EnableInterrupts sets it. *)

\* the step dispatches an interrupt
Dispatches == Len(dispatched') = Len(dispatched) + 1

\* the step executes EI
ExecutesEnable == emu_pc = "exec" /\ instruction'.op = "EnableInterrupts"

NoNesting ==
    /\ Dispatches => (interrupts_enabled /\ ~interrupts_enabled')
    /\ (~interrupts_enabled /\ interrupts_enabled') => ExecutesEnable

C37_NoNesting == [][NoNesting]_vars

\* the loop has dispatched its second interrupt
C37_Witness ==
    /\ dispatched = <<2, 1>>
    /\ emu_pc = "recv"
    /\ ~interrupts_enabled
    /\ registers.program_counter = 8

-----------------------------------------------------------------------------
(* Emulator::new applied on its own to programs of up to MaxProgram bytes   *)
(* at load addresses that include the top of the address space.             *)

MaxProgram == 3
NewStarts == {0, 256, 65533, 65534, 65535}
NewBytes == {0, 118, 255}
NewPrograms == UNION {[1..n -> NewBytes] : n \in 0..MaxProgram}

\* before the call: nothing is constructed yet
InitNew ==
    /\ \E program \in NewPrograms, start \in NewStarts :
          last_op = [name |-> "new", program |-> program, start |-> start]
    /\ registers = DefaultRegisters
    /\ flags = DefaultFlags
    /\ memory = ZeroMemory
    /\ interrupts_enabled = FALSE
    /\ shift_register = DefaultShiftRegister
    /\ buttons = 0
    /\ sound_handler = DefaultSoundHandler
    /\ played = <<>>
    /\ sounds = <<>>
    /\ emu_pc = "new"
    /\ old_pc = 0
    /\ middle_scan = FALSE
    /\ timer = "early"
    /\ instruction = NoInstruction
    /\ dispatched = <<>>
    /\ video = ZeroMemory
    /\ HostStart

\* Emulator::new(program, start, ..): the assert, then the fields of Self
EmulatorNew ==
    /\ emu_pc = "new"
    /\ IF new_accepts(last_op.program, last_op.start)
       THEN /\ registers' = [DefaultRegisters EXCEPT !.program_counter = last_op.start]
            /\ flags' = DefaultFlags
            /\ memory' = new_memory(last_op.program, last_op.start)
            /\ interrupts_enabled' = TRUE
            /\ shift_register' = DefaultShiftRegister
            /\ buttons' = 0
            /\ sound_handler' = DefaultSoundHandler
            /\ played' = <<>>
            /\ sounds' = <<>>
            /\ emu_pc' = "slot"
       ELSE /\ emu_pc' = "panicked"
            /\ UNCHANGED cpu_vars
    /\ UNCHANGED <<host_vars, middle_scan, timer, instruction, old_pc, dispatched, video,
                   last_op>>

SpecNew == InitNew /\ [][EmulatorNew]_vars

-----------------------------------------------------------------------------
(* C38: Emulator::new accepts every program that fits in memory from the    *)
(* load address (length <= 65536 - start) and produces the initial state in *)
(* which memory[start + i] is program byte i, every other memory byte is 0, *)
(* PC = start, all other registers and flags are zero/false and             *)
(* interrupts_enabled is true.                                              *)

NewReturned == last_op.name = "new" /\ emu_pc # "new"

Constructed ==
    /\ emu_pc # "panicked"
    /\ \A i \in 1..Len(last_op.program) :
          MemGet(memory, last_op.start + i - 1) = last_op.program[i]
    /\ \A addr \in DOMAIN memory :
          addr \in last_op.start..(last_op.start + Len(last_op.program) - 1)
    /\ registers = [a |-> 0, b |-> 0, c |-> 0, d |-> 0, e |-> 0, h |-> 0, l |-> 0,
                    stack_pointer |-> 0, program_counter |-> last_op.start]
    /\ \A name \in DOMAIN flags : ~flags[name]
    /\ interrupts_enabled

C38_NewAccepts ==
    (NewReturned /\ Len(last_op.program) <= 65536 - last_op.start) => Constructed

\* the same, of the programs that leave the last byte of memory free
C38_NewAcceptsShorter ==
    (NewReturned /\ Len(last_op.program) < 65536 - last_op.start) => Constructed

\* two bytes loaded at 0xFFFE: the assert fails
C38_Witness ==
    /\ last_op = [name |-> "new", program |-> <<118, 255>>, start |-> 65534]
    /\ emu_pc = "panicked"

\* HLT loaded at 0xFFFE
C38_WitnessLoaded ==
    /\ last_op = [name |-> "new", program |-> <<118>>, start |-> 65534]
    /\ emu_pc = "slot"
    /\ memory = (65534 :> 118)
    /\ registers.program_counter = 65534
    /\ interrupts_enabled

-----------------------------------------------------------------------------
(* ui.rs: the KeyboardInput handler's button_sender.send(..).unwrap(),      *)
(* against an emulator thread that has ended and dropped the Receiver.      *)

\* The emulator thread has returned from execute on a Halt with interrupts disabled
EmulatorTerminated ==
    /\ emu_pc = "done"
    /\ instruction.op = "Halt"
    /\ ~interrupts_enabled

\* A key of BUTTON_MAP is handled: the send happened and the host is still running
SendSucceeds ==
    /\ host_pc' = "idle"
    /\ \E event \in ButtonEvent : sent' = Append(sent, event) /\ chan' = Append(chan, event)

\* C39: the host's send of a button event never fails, in any interleaving, a
\* key event that arrives after the emulator thread has terminated on a Halt
\* with interrupts disabled included: the host event loop keeps running.
C39_SendNeverFails == [][HostKey => SendSucceeds]_vars

\* C39, while the emulator thread is running: the send of a button event
\* succeeds and the event is queued behind the ones sent before it.
C39_SendSucceedsWhileRunning == [][HostKey /\ rx_alive => SendSucceeds]_vars

\* A key event arrived after the emulator thread had ended on a Halt with
\* interrupts disabled, and the unwrap of the failed send ended the host.
C39_Witness ==
    /\ EmulatorTerminated
    /\ ~rx_alive
    /\ host_pc = "panicked"

\* A key event was sent and received while the emulator thread was running.
C39_WitnessDelivered ==
    /\ rx_alive
    /\ host_pc = "idle"
    /\ Len(sent) > 0
    /\ applied = sent

====
